---- MODULE Spec2Model ----
(***************************************************************************)
(* A model of the CELAVI discrete-event simulation of components moving    *)
(* through a supply chain of facilities.                                   *)
(*                                                                         *)
(*   src/celavi/component.py     Component.begin_life, eol_process,        *)
(*                               transition                                *)
(*   src/celavi/simple_model.py  the transition table, its entry and exit  *)
(*                               effects, the Context constants            *)
(*   src/celavi/costgraph.py     the supply chain graph, its node names    *)
(*                               and the enumeration of simple paths       *)
(*                                                                         *)
(* Time is simulated: one event of the SimPy queue is processed per step.  *)
(* Masses are whole tonnes.  years_per_timestep is 1 / TimestepsPerYear,   *)
(* so dividing by it is multiplying by TimestepsPerYear.                   *)
(***************************************************************************)
EXTENDS Integers, Sequences, FiniteSets, TLC

(***************************************************************************)
(* Bounds of the model.                                                    *)
(***************************************************************************)
MaxComponents == 2
MaxYearOffset == 1
MaxLifespan == 2
MaxTimesteps == 10

(***************************************************************************)
(* Program constants.                                                      *)
(***************************************************************************)
min_year == 1980
TimestepsPerYear == 4
LandfillFactor == 2

Kinds == {"blade", "tower"}

\* The mass of one component of a kind, in tonnes.
MassOf(kind) == IF kind = "blade" THEN 3 ELSE 7

VARIABLES
    now,            \* env.now
    queue,          \* the SimPy event queue: records [time, prio, eid, comp, kind]
    next_eid,       \* SimPy's event counter
    components,     \* Context.components: a sequence of Component records
    pc,             \* where each component's process stands
    pathway,        \* Component.pathway: a sequence of <<facility, duration>>
    segment,        \* the (location, lifespan) held by eol_process across its yield
    count_facility_inventories,
    mass_facility_inventories,
    supply_chain,   \* CostGraph.supply_chain: [nodes, edges]
    node_cost,      \* the processing cost of each node
    error,          \* the exception that ended the run, or "none"
    finished,       \* Context.run has returned
    path_choice,    \* history: what choose_paths returned to each component
    built,          \* history: the pathway begin_life built
    begin_ts,       \* history: the timestep begin_life resumed at
    end_ts,         \* history: the timestep of the terminal event
    calls,          \* history: the increment_quantity calls of eol_process
    state,          \* Component.state, the state of each component's state machine
    landfill_material_inventory,
    use_material_inventory,
    effects,        \* history: the entry and exit effects invoked
    transition_calls,  \* history: the calls of Component.transition
    ranking,        \* path_choice of begin_life: what choose_paths returned last
    cost_params,    \* CostGraph: the learning curve of each node
    cumulative_volume,  \* CostGraph: the volume each node has processed
    cost_calls,     \* history: the calls of update_costs and choose_paths
    technology_data,    \* the rows (year, facility_id, n_technology) of the schedule
    component_specs,    \* the component list Scenario.execute builds from the rows
    tables,         \* the input tables of the CostGraph: loc_df, costs_df, steps_df
                    \* and interconnect_df
    seed,           \* the seed of the scenario
    rng,            \* the state of the random number generator
    run,            \* which execution of the program this is
    snapshot,       \* the inventories the earlier execution returned
    trace,          \* history: the events processed, in order
    pending,        \* the nodes whose cost the running update has still to write
    case_files,     \* the files of the case and the directories that exist
    files,          \* Scenario.files, and the directories get_filepaths made
    phase,          \* where the loop over the runs of the scenario stands
    netw            \* CostGraph: run, year, path_dict and pathway_crit_history

vars == <<now, queue, next_eid, components, pc, pathway, segment,
          count_facility_inventories, mass_facility_inventories,
          supply_chain, node_cost, error, finished,
          path_choice, built, begin_ts, end_ts, calls,
          state, landfill_material_inventory, use_material_inventory, effects,
          transition_calls, ranking, cost_params, cumulative_volume, cost_calls,
          technology_data, component_specs, tables, seed, rng, run, snapshot, trace,
          pending, case_files, files, phase, netw>>

NoTime == 0 - 1

(***************************************************************************)
(* Sequences and strings.                                                  *)
(***************************************************************************)
Range(s) == {s[i] : i \in DOMAIN s}

RECURSIVE SeqSum(_)
SeqSum(s) == IF s = <<>> THEN 0 ELSE Head(s) + SeqSum(Tail(s))

\* str.startswith
startswith(s, prefix) ==
    /\ Len(s) >= Len(prefix)
    /\ SubSeq(s, 1, Len(prefix)) = prefix

Max(a, b) == IF a >= b THEN a ELSE b

Last(s) == s[Len(s)]

(***************************************************************************)
(* The supply chain graph (costgraph.py).  A networkx DiGraph keeps its    *)
(* nodes and its edges in insertion order, so both are sequences here:     *)
(*   nodes  records [name, step, facility_id]                              *)
(*   edges  records [u, v, cost, dist], at most one per (u, v)             *)
(***************************************************************************)
NoDist == -1

MkEdge(u, v, cost, dist) == [u |-> u, v |-> v, cost |-> cost, dist |-> dist]

\* CostGraph.get_node_names: "{}{}".format(step, str(facilityID))
get_node_names(facilityID, subgraph_steps) ==
    [i \in DOMAIN subgraph_steps |-> subgraph_steps[i] \o ToString(facilityID)]

NodeNames(G) == {G.nodes[i].name : i \in DOMAIN G.nodes}

NodeAttr(G, name) ==
    LET i == CHOOSE j \in DOMAIN G.nodes : G.nodes[j].name = name
    IN  G.nodes[i]

\* CostGraph.node_filter on the 'step' attribute, in node order
RECURSIVE FilterStep(_, _)
FilterStep(nodes, get_val) ==
    IF nodes = <<>> THEN <<>>
    ELSE (IF Head(nodes).step = get_val THEN <<Head(nodes).name>> ELSE <<>>)
         \o FilterStep(Tail(nodes), get_val)

node_filter(graph, get_val) == FilterStep(graph.nodes, get_val)

\* DiGraph.get_edge_data(u, v)
HasEdge(G, u, v) == \E i \in DOMAIN G.edges : G.edges[i].u = u /\ G.edges[i].v = v

get_edge_data(G, u, v) ==
    LET i == CHOOSE j \in DOMAIN G.edges : G.edges[j].u = u /\ G.edges[j].v = v
    IN  G.edges[i]

\* G[u]: the successors of u, in the order their edges were added
RECURSIVE SuccOf(_, _)
SuccOf(edges, u) ==
    IF edges = <<>> THEN <<>>
    ELSE (IF Head(edges).u = u THEN <<Head(edges).v>> ELSE <<>>)
         \o SuccOf(Tail(edges), u)

Successors(G, u) == SuccOf(G.edges, u)

(***************************************************************************)
(* nx.all_simple_paths(G, source, target): depth first over the successors *)
(* in adjacency order; a path ends at its first arrival at the target and  *)
(* never visits a node twice.  The result is the list of paths in the      *)
(* order networkx yields them.                                             *)
(***************************************************************************)
RECURSIVE SimplePathsFrom(_, _, _)
RECURSIVE SimplePathsOver(_, _, _, _)

SimplePathsFrom(G, visited, target) ==
    IF Last(visited) = target THEN <<visited>>
    ELSE SimplePathsOver(G, visited, Successors(G, Last(visited)), target)

\* A search that only refuses to step back onto the node it stands on, cut
\* off at the number of nodes
SimplePathsOverRevisit(G, visited, children, target) ==
    IF children = <<>> \/ Len(visited) > Len(G.nodes) THEN <<>>
    ELSE (IF Head(children) = Last(visited) THEN <<>>
          ELSE SimplePathsFrom(G, Append(visited, Head(children)), target))
         \o SimplePathsOver(G, visited, Tail(children), target)

SimplePathsOver(G, visited, children, target) ==
    IF children = <<>> THEN <<>>
    ELSE (IF Head(children) \in Range(visited) THEN <<>>
          ELSE SimplePathsFrom(G, Append(visited, Head(children)), target))
         \o SimplePathsOver(G, visited, Tail(children), target)

all_simple_paths(G, source, target) ==
    IF source \notin NodeNames(G) \/ target \notin NodeNames(G) \/ source = target
    THEN <<>>
    ELSE SimplePathsFrom(G, <<source>>, target)

\* nx.utils.pairwise(path): the edges of a path
pairwise(path) == [i \in 1..(Len(path) - 1) |-> <<path[i], path[i + 1]>>]

\* A path priced without its edges
PathEdgeCostIgnored(G, path) == 0

\* The edge costs of a path, as enumerate_paths sums them
PathEdgeCost(G, path) ==
    SeqSum([i \in 1..(Len(path) - 1) |->
                get_edge_data(G, pairwise(path)[i][1], pairwise(path)[i][2]).cost])

(***************************************************************************)
(* Building the supply chain (build_facility_graph and                     *)
(* build_supplychain_graph).  The tables are sequences of rows:            *)
(*   loc_df           [facility_id, facility_type]                         *)
(*   costs_df         [facility_id, step, cost_method]                     *)
(*   steps_df         [facility_type, step, next_step]                     *)
(*   interconnect_df  [u_step, v_step, cost_method]                        *)
(***************************************************************************)
NoTables == [loc_df |-> <<>>, costs_df |-> <<>>, steps_df |-> <<>>,
             interconnect_df |-> <<>>]

EmptyGraph == [nodes |-> <<>>, edges |-> <<>>]

\* DiGraph.add_nodes_from: a node that is in the graph already keeps its
\* place and takes the new attributes
RECURSIVE add_nodes_from(_, _)
add_nodes_from(G, nodes) ==
    IF nodes = <<>> THEN G
    ELSE LET n == Head(nodes)
             merged == IF n.name \in NodeNames(G)
                       THEN [G EXCEPT !.nodes = [i \in DOMAIN G.nodes |->
                                 IF G.nodes[i].name = n.name THEN n ELSE G.nodes[i]]]
                       ELSE [G EXCEPT !.nodes = Append(@, n)]
         IN  add_nodes_from(merged, Tail(nodes))

\* DiGraph.add_edges_from: an edge that is in the graph already keeps its
\* place and takes the new attributes
RECURSIVE add_edges_from(_, _)
add_edges_from(G, edges) ==
    IF edges = <<>> THEN G
    ELSE LET e == Head(edges)
             merged == IF HasEdge(G, e.u, e.v)
                       THEN [G EXCEPT !.edges = [i \in DOMAIN G.edges |->
                                 IF G.edges[i].u = e.u /\ G.edges[i].v = e.v
                                 THEN e ELSE G.edges[i]]]
                       ELSE [G EXCEPT !.edges = Append(@, e)]
         IN  add_edges_from(merged, Tail(edges))

\* get_nodes: the steps of the facility in costs_df, with their attributes
get_nodes(costs_df, facility_df) ==
    LET rows == SelectSeq(costs_df, LAMBDA r : r.facility_id = facility_df.facility_id)
    IN  [i \in DOMAIN rows |->
            [name |-> rows[i].step, step |-> rows[i].step,
             facility_id |-> facility_df.facility_id]]

\* get_edges: the (step, next_step) rows of the facility type
get_edges(steps_df, facility_df) ==
    LET rows == SelectSeq(steps_df,
                          LAMBDA r : r.facility_type = facility_df.facility_type)
    IN  [i \in DOMAIN rows |-> <<rows[i].step, rows[i].next_step>>]

\* build_facility_graph: the nodes and the edges of one facility, relabelled
\* with the names of get_node_names
build_facility_graph(costs_df, steps_df, facility_df) ==
    LET _facility_nodes == get_nodes(costs_df, facility_df)
        _edges == get_edges(steps_df, facility_df)
        _node_names == [i \in DOMAIN _facility_nodes |-> _facility_nodes[i].name]
        _node_names_unique == get_node_names(facility_df.facility_id, _node_names)
        _labels(name) == _node_names_unique[CHOOSE i \in DOMAIN _node_names :
                                                _node_names[i] = name]
    IN  [nodes |-> [i \in DOMAIN _facility_nodes |->
                       [_facility_nodes[i] EXCEPT !.name = _node_names_unique[i]]],
         edges |-> [i \in DOMAIN _edges |->
                       MkEdge(_labels(_edges[i][1]), _labels(_edges[i][2]), 0, 0)]]

\* Every element of list1 with every element of list2
list_of_all_pairs(list1, list2) ==
    [n \in 1..(Len(list1) * Len(list2)) |->
        <<list1[((n - 1) \div Len(list2)) + 1], list2[((n - 1) % Len(list2)) + 1]>>]

\* list_of_tuples: zip, as long as the shorter list
list_of_tuples(list1, list2) ==
    [i \in 1..(IF Len(list1) < Len(list2) THEN Len(list1) ELSE Len(list2)) |->
        <<list1[i], list2[i]>>]

\* build_supplychain_graph, lines 270-283: the facilities, line by line
RECURSIVE AddFacilities(_, _, _)
AddFacilities(G, t, loc_df) ==
    IF loc_df = <<>> THEN G
    ELSE LET _fac_graph == build_facility_graph(t.costs_df, t.steps_df, Head(loc_df))
         IN  AddFacilities(add_edges_from(add_nodes_from(G, _fac_graph.nodes),
                                          _fac_graph.edges),
                           t, Tail(loc_df))

\* build_supplychain_graph, lines 285-300: the inter-facility edges
RECURSIVE AddInterconnections(_, _)
AddInterconnections(G, interconnect_df) ==
    IF interconnect_df = <<>> THEN G
    ELSE LET row == Head(interconnect_df)
             _edge_list == list_of_tuples(node_filter(G, row.u_step),
                                          node_filter(G, row.v_step))
         IN  AddInterconnections(
                 add_edges_from(G, [i \in DOMAIN _edge_list |->
                                       MkEdge(_edge_list[i][1], _edge_list[i][2],
                                              row.cost_method, NoDist)]),
                 Tail(interconnect_df))

\* build_supplychain_graph; the loop over the routes adds nothing
build_supplychain_graph(G, t) ==
    AddInterconnections(AddFacilities(G, t, t.loc_df), t.interconnect_df)

(***************************************************************************)
(* Path selection.  CostGraph.choose_paths is called by begin_life and by  *)
(* the entry point; it ranks the simple paths from the nodes of the source *)
(* class to the nodes of the sink classes by total cost: the processing    *)
(* costs of the nodes plus the costs of the edges.  Equal costs are ranked *)
(* by the node ids of the paths, in lexicographic order.                   *)
(***************************************************************************)
SourceStep == "in use"
SinkSteps == <<"landfill", "next use">>

\* The generic residency of a processing step, in timesteps
StepDuration(step) ==
    IF step = "in use" THEN 5 ELSE 1

\* The order of node ids: by step, then by facility id
StepRank(step) ==
    IF step = "in use" THEN 1
    ELSE IF step = "landfill" THEN 2
    ELSE IF step = "next use" THEN 3
    ELSE 4

NodeBefore(G, a, b) ==
    LET x == NodeAttr(G, a)
        y == NodeAttr(G, b)
    IN  \/ StepRank(x.step) < StepRank(y.step)
        \/ StepRank(x.step) = StepRank(y.step) /\ x.facility_id < y.facility_id

RECURSIVE LexBefore(_, _, _)
LexBefore(G, p, q) ==
    IF p = <<>> THEN q # <<>>
    ELSE IF q = <<>> THEN FALSE
    ELSE IF Head(p) = Head(q) THEN LexBefore(G, Tail(p), Tail(q))
    ELSE NodeBefore(G, Head(p), Head(q))

\* A path priced at the initial costs of its nodes
PathCostAtInitialCosts(G, costs, path) ==
    SeqSum([i \in DOMAIN path |-> cost_params[path[i]].cost_initial])
    + PathEdgeCost(G, path)

\* path cost = sum of node processing costs + sum of edge costs
PathCost(G, costs, path) ==
    SeqSum([i \in DOMAIN path |-> costs[path[i]]]) + PathEdgeCost(G, path)

RankedBefore(G, costs, p, q) ==
    \/ PathCost(G, costs, p) < PathCost(G, costs, q)
    \/ PathCost(G, costs, p) = PathCost(G, costs, q) /\ LexBefore(G, p, q)

\* The candidates: every simple path of every (source, sink) pair, in the
\* order they are enumerated
RECURSIVE PathsToSinks(_, _, _)
PathsToSinks(G, source, sinks) ==
    IF sinks = <<>> THEN <<>>
    ELSE all_simple_paths(G, source, Head(sinks)) \o PathsToSinks(G, source, Tail(sinks))

RECURSIVE PathsFromSources(_, _, _)
PathsFromSources(G, sources, sinks) ==
    IF sources = <<>> THEN <<>>
    ELSE PathsToSinks(G, Head(sources), sinks) \o PathsFromSources(G, Tail(sources), sinks)

RECURSIVE SinkNodes(_, _)
SinkNodes(G, steps) ==
    IF steps = <<>> THEN <<>>
    ELSE node_filter(G, Head(steps)) \o SinkNodes(G, Tail(steps))

Candidates(G) ==
    PathsFromSources(G, node_filter(G, SourceStep), SinkNodes(G, SinkSteps))

\* Insertion sort of the candidates by RankedBefore
RECURSIVE InsertRanked(_, _, _, _)
InsertRanked(G, costs, p, ranked) ==
    IF ranked = <<>> THEN <<p>>
    ELSE IF RankedBefore(G, costs, p, Head(ranked)) THEN <<p>> \o ranked
    ELSE <<Head(ranked)>> \o InsertRanked(G, costs, p, Tail(ranked))

RECURSIVE RankPaths(_, _, _)
RankPaths(G, costs, paths) ==
    IF paths = <<>> THEN <<>>
    ELSE InsertRanked(G, costs, Head(paths), RankPaths(G, costs, Tail(paths)))

\* choose_paths(): the ranked candidates, each [path, cost] with path a
\* sequence of <<facility, lifespan>>
choose_paths(G, costs) ==
    LET ranked == RankPaths(G, costs, Candidates(G))
    IN  [i \in DOMAIN ranked |->
            [path |-> [j \in DOMAIN ranked[i] |->
                          <<ranked[i][j], StepDuration(NodeAttr(G, ranked[i][j]).step)>>],
             cost |-> PathCost(G, costs, ranked[i])]]

\* The facilities of a pathway, in order
FacilitiesOf(path) == [i \in DOMAIN path |-> path[i][1]]

(***************************************************************************)
(* The supply chain of the simulation: an in use facility, a recycler that *)
(* can send material back into use, a landfill and a next use facility.    *)
(***************************************************************************)
MkNode(step, facility_id) ==
    [name |-> get_node_names(facility_id, <<step>>)[1], step |-> step,
     facility_id |-> facility_id]

InUse1 == MkNode("in use", 1).name
Recycling2 == MkNode("recycling", 2).name
Landfill3 == MkNode("landfill", 3).name
NextUse4 == MkNode("next use", 4).name

DesGraph ==
    [nodes |-> <<MkNode("in use", 1), MkNode("recycling", 2),
                 MkNode("landfill", 3), MkNode("next use", 4)>>,
     edges |-> <<MkEdge(InUse1, Recycling2, 1, NoDist),
                 MkEdge(InUse1, Landfill3, 4, NoDist),
                 MkEdge(Recycling2, InUse1, 0, NoDist),
                 MkEdge(Recycling2, Landfill3, 1, NoDist),
                 MkEdge(Recycling2, NextUse4, 1, NoDist)>>]

Facilities == NodeNames(DesGraph)

MkCosts(recycling, landfill, nextuse) ==
    [n \in Facilities |->
        IF n = Recycling2 THEN recycling
        ELSE IF n = Landfill3 THEN landfill
        ELSE IF n = NextUse4 THEN nextuse
        ELSE 0]

\* Processing costs under which each of the three routes is the cheapest
DesCosts == {MkCosts(5, 2, 3), MkCosts(1, 2, 3), MkCosts(1, 2, 0)}

(***************************************************************************)
(* The learning curve of a node (update_costs):                            *)
(*   cost = cost_initial * (max(cumulative_volume, base_volume)            *)
(*                          / base_volume) ^ (-learning_exponent)          *)
(* clamped at the floor cost.  Costs are whole cost units: the quotient is *)
(* rounded down.                                                           *)
(***************************************************************************)
RECURSIVE Pow(_, _)
Pow(x, n) == IF n = 0 THEN 1 ELSE x * Pow(x, n - 1)

LearningCurve(cost_initial, base_volume, learning_exponent, floor) ==
    [cost_initial |-> cost_initial, base_volume |-> base_volume,
     learning_exponent |-> learning_exponent, floor |-> floor]

\* The cost of a node that has processed volume
LearningCost(curve, volume) ==
    Max(curve.floor,
        (curve.cost_initial * Pow(curve.base_volume, curve.learning_exponent))
            \div Pow(Max(volume, curve.base_volume), curve.learning_exponent))

\* Nodes whose cost does not learn: exponent 0
FixedCosts(costs) ==
    [n \in DOMAIN costs |-> LearningCurve(costs[n], 1, 0, 0)]

\* An update that prices each node on the volume of the period alone
update_costs_by_period(curves, volumes, elapsed) ==
    [volume |-> [n \in DOMAIN volumes |-> volumes[n] + elapsed[n]],
     costs |-> [n \in DOMAIN volumes |-> LearningCost(curves[n], elapsed[n])]]

\* update_costs(elapsed volume per node): [volume, costs]
update_costs(curves, volumes, elapsed) ==
    LET volume == [n \in DOMAIN volumes |-> volumes[n] + elapsed[n]]
    IN  [volume |-> volume,
         costs |-> [n \in DOMAIN volumes |-> LearningCost(curves[n], volume[n])]]

(***************************************************************************)
(* The inventory ledger of one facility.  level is the running quantity of *)
(* each item, transactions the net change booked at each timestep, inflow  *)
(* the quantity that entered at each timestep.                             *)
(***************************************************************************)
max_timesteps == MaxTimesteps

Timesteps == 0..(max_timesteps - 1)

\* transactions and inflow hold an entry for each timestep booked so far
NewInventory(can_be_negative) ==
    [level |-> [k \in Kinds |-> 0],
     transactions |-> [k \in Kinds |-> <<>>],
     inflow |-> [k \in Kinds |-> <<>>],
     can_be_negative |-> can_be_negative]

\* increment_quantity raises when the level would fall below zero
GoesNegative(inventory, item_name, quantity) ==
    /\ ~inventory.can_be_negative
    /\ inventory.level[item_name] + quantity < 0

\* series[timestep] += quantity
Book(series, timestep, quantity) ==
    IF timestep \in DOMAIN series
    THEN [series EXCEPT ![timestep] = @ + quantity]
    ELSE [t \in DOMAIN series \cup {timestep} |->
             IF t = timestep THEN quantity ELSE series[t]]

\* An inventory whose inflow series takes the signed quantity
increment_quantity_net(inventory, item_name, quantity, timestep) ==
    [inventory EXCEPT
        !.level[item_name] = @ + quantity,
        !.transactions[item_name] = Book(@, timestep, quantity),
        !.inflow[item_name] = Book(@, timestep, quantity)]

increment_quantity(inventory, item_name, quantity, timestep) ==
    [inventory EXCEPT
        !.level[item_name] = @ + quantity,
        !.transactions[item_name] = Book(@, timestep, quantity),
        !.inflow[item_name] = Book(@, timestep, Max(quantity, 0))]

\* The level of an item at a timestep: what was booked at or before it
RECURSIVE SumOver(_, _)
SumOver(series, booked) ==
    IF booked = {} THEN 0
    ELSE LET t == CHOOSE x \in booked : TRUE
         IN  series[t] + SumOver(series, booked \ {t})

SumUpTo(series, t) == SumOver(series, {s \in DOMAIN series : s <= t})

LevelAt(inventory, item_name, t) == SumUpTo(inventory.transactions[item_name], t)

CumulativeInflowAt(inventory, item_name, t) == SumUpTo(inventory.inflow[item_name], t)

(***************************************************************************)
(* The calls eol_process makes on the ledgers.  A call is a record         *)
(* [inv, facility, item, quantity, timestep] with inv "count" or "mass".   *)
(***************************************************************************)
MkCall(inv, facility, item, quantity, timestep) ==
    [inv |-> inv, facility |-> facility, item |-> item, quantity |-> quantity,
     timestep |-> timestep]

\* An arrival that leaves the mass ledger as it is
EnterCallsCountOnly(component, location, t) ==
    <<MkCall("count", location, component.kind, 1, t)>>

\* component.py lines 163-164
EnterCalls(component, location, t) ==
    <<MkCall("count", location, component.kind, 1, t),
      MkCall("mass", location, component.kind, component.mass_tonnes, t)>>

\* A decrement of the mass ledger by one unit instead of the component's mass
LeaveCallsUnitMass(component, location, t) ==
    <<MkCall("count", location, component.kind, -1, t),
      MkCall("mass", location, component.kind, -1, t)>>

\* A departure that leaves the count ledger as it is
LeaveCallsMassOnly(component, location, t) ==
    <<MkCall("mass", location, component.kind, -component.mass_tonnes, t)>>

\* component.py lines 166-167
LeaveCalls(component, location, t) ==
    <<MkCall("count", location, component.kind, -1, t),
      MkCall("mass", location, component.kind, -component.mass_tonnes, t)>>

\* The ledgers after a list of calls, made in order until one raises
RECURSIVE ApplyCalls(_, _)
ApplyCalls(ledgers, cs) ==
    IF cs = <<>> \/ ledgers.error # "none" THEN ledgers
    ELSE LET call == Head(cs)
             inv == IF call.inv = "count" THEN ledgers.count[call.facility]
                    ELSE ledgers.mass[call.facility]
         IN  IF GoesNegative(inv, call.item, call.quantity)
             THEN [ledgers EXCEPT !.error = "ValueError"]
             ELSE LET after == increment_quantity(inv, call.item, call.quantity,
                                                  call.timestep)
                      next == IF call.inv = "count"
                              THEN [ledgers EXCEPT !.count[call.facility] = after,
                                                   !.made = Append(@, call)]
                              ELSE [ledgers EXCEPT !.mass[call.facility] = after,
                                                   !.made = Append(@, call)]
                  IN  ApplyCalls(next, Tail(cs))

(***************************************************************************)
(* The SimPy event queue.  Events are processed in the order of (time,     *)
(* priority, event id); the start of a process is urgent, a timeout is     *)
(* normal.                                                                 *)
(***************************************************************************)
URGENT == 0
NORMAL == 1

MkEvent(time, prio, eid, comp, kind) ==
    [time |-> time, prio |-> prio, eid |-> eid, comp |-> comp, kind |-> kind]

EventBefore(a, b) ==
    \/ a.time < b.time
    \/ a.time = b.time /\ a.prio < b.prio
    \/ a.time = b.time /\ a.prio = b.prio /\ a.eid < b.eid

IsNext(e) ==
    /\ e \in queue
    /\ \A other \in queue \ {e} : EventBefore(e, other)

\* A scheduler that starts a process while another one is running
Reentrant == TRUE

\* A process runs until it yields: no event is processed meanwhile
Idle == pending = <<>>

\* env.run(until=max_timesteps) processes the events before the horizon
Running == ~finished /\ error = "none" /\ Idle

Due(e, c, kind) ==
    /\ Running
    /\ IsNext(e)
    /\ e.comp = c
    /\ e.kind = kind
    /\ e.time < max_timesteps

(***************************************************************************)
(* Component (component.py).                                               *)
(***************************************************************************)
\* Component.__init__
NewComponent(kind, year, lifespan_timesteps, mass_tonnes) ==
    [kind |-> kind, year |-> year,
     initial_lifespan_timesteps |-> lifespan_timesteps,
     mass_tonnes |-> mass_tonnes]

ComponentIds == DOMAIN components

\* The entry delay in years, not converted to timesteps
begin_timestep_in_years(component) == component.year - min_year

\* begin_life, line 93: (year - min_year) / years_per_timestep
begin_timestep(component) == (component.year - min_year) * TimestepsPerYear

\* The policy without its "in use" branch
RewriteSegmentKeepInUse(component, seg) ==
    IF startswith(seg[1], "landfill")
    THEN <<seg[1], max_timesteps * LandfillFactor>>
    ELSE <<seg[1], seg[2]>>

\* The policy with a landfill residency of one horizon
RewriteSegmentShortLandfill(component, seg) ==
    IF startswith(seg[1], "in use")
    THEN <<seg[1], component.initial_lifespan_timesteps>>
    ELSE IF startswith(seg[1], "landfill")
    THEN <<seg[1], max_timesteps>>
    ELSE <<seg[1], seg[2]>>

\* begin_life, lines 101-107: the duration policy of one segment
RewriteSegment(component, seg) ==
    IF startswith(seg[1], "in use")
    THEN <<seg[1], component.initial_lifespan_timesteps>>
    ELSE IF startswith(seg[1], "landfill")
    THEN <<seg[1], max_timesteps * LandfillFactor>>
    ELSE <<seg[1], seg[2]>>

BuildPathway(component, path) ==
    [i \in DOMAIN path |-> RewriteSegment(component, path[i])]

\* A timeout that fires one timestep late
TimeoutLate(t, delay, c, kind) == MkEvent(t + delay + 1, NORMAL, next_eid, c, kind)

\* A timeout that fires one timestep early
TimeoutEarly(t, delay, c, kind) == MkEvent(t + delay - 1, NORMAL, next_eid, c, kind)

\* env.timeout(delay) of a process: a normal event at now + delay
Timeout(t, delay, c, kind) == MkEvent(t + delay, NORMAL, next_eid, c, kind)

\* env.process(generator): an urgent event at the current time
Process(t, c, kind) == MkEvent(t, URGENT, next_eid, c, kind)

desHistory == <<path_choice, built, begin_ts, end_ts, calls, trace>>
\* The seed, the generator and the earlier execution
seedVars == <<seed, rng, run, snapshot>>
\* The files of the case and what get_filepaths records
fileVars == <<case_files, files>>
\* The files and the loop over the runs
loopVars == <<fileVars, phase>>
ledgerVars == <<count_facility_inventories, mass_facility_inventories>>
\* The cost graph, and what is read and built before the run, but for the
\* attributes of the CostGraph that a run writes
runGraphVars == <<supply_chain, node_cost, cost_params, cumulative_volume, cost_calls,
                  technology_data, component_specs, tables, seedVars, pending,
                  loopVars>>
\* The cost graph, and what is read and built before the run
graphVars == <<runGraphVars, netw>>

\* case["model_run"]["start_year"]
start_year == min_year

\* The year of a timestep
YearOf(t) == start_year + (t \div TimestepsPerYear)

\* component_total_mass: the mass of a component installed in a year
component_total_mass(year) == MassOf("blade") + (year - start_year)

\* The path_dict entries that Scenario.execute writes
PathDict(year) == [year |-> year, component_mass |-> component_total_mass(year)]

\* The CostGraph as Scenario.setup constructs it, lines 250-277
NewCostGraph ==
    [run |-> 0, year |-> start_year, path_dict |-> PathDict(start_year),
     pathway_crit_history |-> <<>>]
smVars == <<state, landfill_material_inventory, use_material_inventory, effects,
            transition_calls>>

\* begin_life up to its yield, lines 93-94
StartBeginLife(c) ==
    \E e \in queue :
        /\ Due(e, c, "begin_life")
        /\ now' = e.time
        /\ trace' = Append(trace, e)
        /\ queue' = (queue \ {e}) \cup
                      {Timeout(e.time, begin_timestep(components[c]), c, "begin_timeout")}
        /\ next_eid' = next_eid + 1
        /\ pc' = [pc EXCEPT ![c] = "begin_wait"]
        /\ UNCHANGED <<components, pathway, segment, ledgerVars, graphVars, error,
                       finished, path_choice, built, begin_ts, end_ts, calls, smVars,
                       ranking>>

\* A begin_life that takes an empty pathway when there is no candidate
ResumeBeginLifeEmptyPathway(c) ==
    \E e \in queue :
        /\ Due(e, c, "begin_timeout")
        /\ now' = e.time
        /\ trace' = Append(trace, e)
        /\ \E choice \in {choose_paths(supply_chain, node_cost)} :
           \E new_pathway \in {IF choice = <<>> THEN <<>>
                                ELSE BuildPathway(components[c], choice[1].path)} :
               /\ pathway' = [pathway EXCEPT ![c] = new_pathway]
               /\ queue' = (queue \ {e}) \cup {Process(e.time, c, "eol_process")}
               /\ next_eid' = next_eid + 1
               /\ pc' = [pc EXCEPT ![c] = "eol_start"]
               /\ path_choice' = [path_choice EXCEPT
                                     ![c] = IF choice = <<>> THEN <<>> ELSE choice[1].path]
               /\ built' = [built EXCEPT ![c] = new_pathway]
               /\ begin_ts' = [begin_ts EXCEPT ![c] = e.time]
               /\ ranking' = choice
               /\ error' = error
               /\ netw' = IF choice = <<>> THEN netw
                          ELSE [netw EXCEPT !.pathway_crit_history =
                                   Append(@, [year |-> netw.year,
                                              cost |-> choice[1].cost])]
        /\ UNCHANGED <<components, segment, ledgerVars, runGraphVars, finished, end_ts,
                       calls, smVars>>

\* begin_life after its yield, lines 95-109
ResumeBeginLife(c) ==
    \E e \in queue :
        /\ Due(e, c, "begin_timeout")
        /\ now' = e.time
        /\ trace' = Append(trace, e)
        /\ \E choice \in {choose_paths(supply_chain, node_cost)} :
               IF choice = <<>>
               THEN \* path_choice[0] raises
                    /\ ranking' = choice
                    /\ error' = "IndexError"
                    /\ queue' = queue \ {e}
                    /\ pc' = [pc EXCEPT ![c] = "failed"]
                    /\ UNCHANGED <<next_eid, pathway, path_choice, built, begin_ts, netw>>
               ELSE \E new_pathway \in {BuildPathway(components[c], choice[1].path)} :
                    /\ pathway' = [pathway EXCEPT ![c] = new_pathway]
                    /\ queue' = (queue \ {e}) \cup {Process(e.time, c, "eol_process")}
                    /\ next_eid' = next_eid + 1
                    /\ pc' = [pc EXCEPT ![c] = "eol_start"]
                    /\ path_choice' = [path_choice EXCEPT ![c] = choice[1].path]
                    /\ built' = [built EXCEPT ![c] = new_pathway]
                    /\ begin_ts' = [begin_ts EXCEPT ![c] = e.time]
                    /\ ranking' = choice
                    /\ error' = error
                    \* choose_paths records the criterion of the pathway it returns
                    /\ netw' = [netw EXCEPT !.pathway_crit_history =
                                   Append(@, [year |-> netw.year,
                                              cost |-> choice[1].cost])]
        /\ UNCHANGED <<components, segment, ledgerVars, runGraphVars, finished, end_ts,
                       calls, smVars>>

\* A loop that ends while one segment is left
HasSegmentBeyondNext(p) == Len(p) > 1

\* eol_process, line 159: len(self.pathway) > 0
HasSegment(p) == Len(p) > 0

\* One pass of the loop of eol_process, lines 158-169, from its head to its
\* yield or its break; leaving is the list of calls made on resumption.
EolLoop(c, e, leaving) ==
    LET component == components[c]
        more == HasSegment(pathway[c])
        popped == Head(pathway[c])
        entering == IF more THEN EnterCalls(component, popped[1], e.time) ELSE <<>>
    IN  \E ledgers \in {ApplyCalls([count |-> count_facility_inventories,
                                    mass |-> mass_facility_inventories,
                                    error |-> "none", made |-> <<>>],
                                   leaving \o entering)} :
        /\ now' = e.time
        /\ trace' = Append(trace, e)
        /\ count_facility_inventories' = ledgers.count
        /\ mass_facility_inventories' = ledgers.mass
        /\ error' = ledgers.error
        /\ calls' = calls \o [i \in DOMAIN ledgers.made |->
                                 [comp |-> c, at |-> e.time, call |-> ledgers.made[i]]]
        /\ IF ledgers.error # "none"
           THEN /\ queue' = queue \ {e}
                /\ pc' = [pc EXCEPT ![c] = "failed"]
                /\ UNCHANGED <<next_eid, pathway, segment, end_ts>>
           ELSE IF more
           THEN /\ pathway' = [pathway EXCEPT ![c] = Tail(@)]
                /\ segment' = [segment EXCEPT
                                  ![c] = [location |-> popped[1], lifespan |-> popped[2],
                                          since |-> e.time]]
                /\ queue' = (queue \ {e}) \cup
                              {Timeout(e.time, popped[2], c, "eol_timeout")}
                /\ next_eid' = next_eid + 1
                /\ pc' = [pc EXCEPT ![c] = "eol_wait"]
                /\ UNCHANGED end_ts
           ELSE /\ queue' = queue \ {e}
                /\ pc' = [pc EXCEPT ![c] = "done"]
                /\ end_ts' = [end_ts EXCEPT ![c] = e.time]
                /\ UNCHANGED <<next_eid, pathway, segment>>
        /\ UNCHANGED <<components, graphVars, finished, path_choice, built, begin_ts,
                       smVars, ranking>>

\* eol_process from its start
StartEolProcess(c) ==
    \E e \in queue :
        /\ Due(e, c, "eol_process")
        /\ EolLoop(c, e, <<>>)

\* A resumption that books its decrement at the timestep the segment began
ResumeEolProcessStale(c) ==
    \E e \in queue :
        /\ Due(e, c, "eol_timeout")
        /\ EolLoop(c, e, LeaveCalls(components[c], segment[c].location,
                                    segment[c].since))

\* eol_process resumed by the timeout of line 165
ResumeEolProcess(c) ==
    \E e \in queue :
        /\ Due(e, c, "eol_timeout")
        /\ EolLoop(c, e, LeaveCalls(components[c], segment[c].location, e.time))

\* Context.run returns when no event is left before the horizon
RunEnds ==
    /\ Running
    /\ \A e \in queue : e.time >= max_timesteps
    /\ now' = max_timesteps
    /\ finished' = TRUE
    /\ UNCHANGED <<queue, next_eid, components, pc, pathway, segment, ledgerVars,
                   graphVars, error, desHistory, smVars, ranking>>

\* No case read
NoFiles ==
    /\ case_files = <<>>
    /\ files = <<>>
    /\ phase = "run"
    /\ netw = NewCostGraph

\* One execution of the program, no random draw made
NoRuns ==
    /\ seed = 0
    /\ rng = 0
    /\ run = 1
    /\ snapshot = <<>>
    /\ trace = <<>>
    /\ pending = <<>>
    /\ NoFiles

(***************************************************************************)
(* The state after Context.populate: one begin_life process for each     *)
(* component, in creation order.                                           *)
(***************************************************************************)
\* Components enter in the first or in the last year of the schedule, with
\* no lifespan, a lifespan of one timestep or the longest lifespan
Years == {min_year, min_year + MaxYearOffset}
Lifespans == {0, 1, MaxLifespan}

\* The kinds of a fleet: all blades, or blades and towers in turn
Fleets == {"blades", "mixed"}

KindAt(fleet, c) == IF fleet = "mixed" /\ c % 2 = 0 THEN "tower" ELSE "blade"

Populations ==
    UNION {{[c \in 1..n |-> NewComponent(KindAt(fleet, c), year[c], lifespan[c],
                                         MassOf(KindAt(fleet, c)))] :
              fleet \in Fleets, year \in [1..n -> Years], lifespan \in [1..n -> Lifespans]} :
           n \in 1..MaxComponents}

NoSegment == [location |-> "", lifespan |-> 0, since |-> NoTime]

Init ==
    /\ components \in Populations
    /\ now = 0
    /\ queue = {MkEvent(0, URGENT, c, c, "begin_life") : c \in DOMAIN components}
    /\ next_eid = Len(components) + 1
    /\ pc = [c \in DOMAIN components |-> "created"]
    /\ pathway = [c \in DOMAIN components |-> <<>>]
    /\ segment = [c \in DOMAIN components |-> NoSegment]
    /\ count_facility_inventories = [f \in Facilities |-> NewInventory(FALSE)]
    /\ mass_facility_inventories = [f \in Facilities |-> NewInventory(FALSE)]
    /\ supply_chain = DesGraph
    /\ node_cost \in DesCosts
    /\ error = "none"
    /\ finished = FALSE
    /\ path_choice = [c \in DOMAIN components |-> <<>>]
    /\ built = [c \in DOMAIN components |-> <<>>]
    /\ begin_ts = [c \in DOMAIN components |-> NoTime]
    /\ end_ts = [c \in DOMAIN components |-> NoTime]
    /\ calls = <<>>
    /\ state = [c \in DOMAIN components |-> ""]
    /\ landfill_material_inventory = NewInventory(FALSE)
    /\ use_material_inventory = NewInventory(FALSE)
    /\ effects = <<>>
    /\ transition_calls = <<>>
    /\ ranking = <<>>
    /\ cost_params = FixedCosts(node_cost)
    /\ cumulative_volume = [n \in Facilities |-> 0]
    /\ cost_calls = <<>>
    /\ technology_data = <<>>
    /\ tables = NoTables
    /\ NoRuns
    /\ component_specs = <<>>

Next ==
    \/ \E c \in ComponentIds : StartBeginLife(c)
    \/ \E c \in ComponentIds : ResumeBeginLife(c)
    \/ \E c \in ComponentIds : StartEolProcess(c)
    \/ \E c \in ComponentIds : ResumeEolProcess(c)
    \/ RunEnds

Spec == Init /\ [][Next]_vars

(***************************************************************************)
(* The state machine of a component: Component.transition (component.py)   *)
(* over the transitions table and the effects of simple_model.py.  The     *)
(* context holds one use inventory and one landfill inventory.             *)
(***************************************************************************)
MaxCalls == 2
MaxCallTimestep == 1

LandfillLifespan == 1000

\* NextState(state, lifespan_min, lifespan_max, entry function, exit function)
NextState(next, lifespan_min, lifespan_max, entry, exit) ==
    [state |-> next, lifespan_min |-> lifespan_min, lifespan_max |-> lifespan_max,
     state_entry_function |-> entry, state_exit_function |-> exit]

\* StateTransition(state, transition)
StateTransition(current, name) == <<current, name>>

\* A table with a way back from the landfill
make_transitions_table_with_reuse ==
    [lookup \in {StateTransition("use", "landfilling"),
                 StateTransition("landfill", "using")} |->
        IF lookup[1] = "use"
        THEN NextState("landfill", LandfillLifespan, LandfillLifespan, "landfill", "leave_use")
        ELSE NextState("use", 1, 1, "use", "None")]

\* make_transitions_table, simple_model.py lines 29-39
make_transitions_table ==
    [lookup \in {StateTransition("use", "landfilling")} |->
        NextState("landfill", LandfillLifespan, LandfillLifespan, "landfill", "leave_use")]

\* NextState.lifespan: a residency between lifespan_min and lifespan_max
LifespanOf(next_state) == next_state.lifespan_min..next_state.lifespan_max

\* The context as an effect sees it; raised is the exception of an effect
MkContext(landfill_inv, use_inv) ==
    [landfill_material_inventory |-> landfill_inv,
     use_material_inventory |-> use_inv, raised |-> "none"]

\* An inventory that books whatever it is asked to
EffectBooksUnchecked(context, field, item_name, quantity, timestep) ==
    [context EXCEPT ![field] = increment_quantity(@, item_name, quantity, timestep)]

\* Inventory.increment_quantity called by an effect
EffectBooks(context, field, item_name, quantity, timestep) ==
    IF GoesNegative(context[field], item_name, quantity)
    THEN [context EXCEPT !.raised = "ValueError"]
    ELSE [context EXCEPT ![field] = increment_quantity(@, item_name, quantity, timestep)]

landfill(context, component, timestep) ==
    EffectBooks(context, "landfill_material_inventory", component.kind, 1, timestep)

use(context, component, timestep) ==
    EffectBooks(context, "use_material_inventory", component.kind, 1, timestep)

leave_use(context, component, timestep) ==
    EffectBooks(context, "use_material_inventory", component.kind, -1, timestep)

\* The call of a function stored in the transitions table
CallEffect(function, context, component, timestep) ==
    IF function = "landfill" THEN landfill(context, component, timestep)
    ELSE IF function = "use" THEN use(context, component, timestep)
    ELSE IF function = "leave_use" THEN leave_use(context, component, timestep)
    ELSE context

\* What an effect was called with, and the component as it was at the call
MkEffect(function, c, component, current, timestep) ==
    [function |-> function, context |-> "context", component |-> c,
     timestep |-> timestep, state |-> current,
     lifespan |-> component.initial_lifespan_timesteps]

\* The effects called in order until one raises: [context, called]
RECURSIVE CallEffects(_, _, _, _, _, _)
CallEffects(functions, context, c, component, current, timestep) ==
    IF functions = <<>> \/ context.raised # "none"
    THEN [context |-> context, called |-> <<>>]
    ELSE IF Head(functions) = "None"
    THEN CallEffects(Tail(functions), context, c, component, current, timestep)
    ELSE LET rest == CallEffects(Tail(functions),
                                 CallEffect(Head(functions), context, component, timestep),
                                 c, component, current, timestep)
         IN  [context |-> rest.context,
              called |-> <<MkEffect(Head(functions), c, component, current, timestep)>>
                          \o rest.called]

MkTransitionCall(c, name, timestep, from, raised) ==
    [comp |-> c, transition |-> name, timestep |-> timestep, from |-> from,
     raised |-> raised]

desVars == <<now, queue, next_eid, pc, pathway, segment, ledgerVars, graphVars,
             error, finished, desHistory>>

\* transition, lines 134-138: the lookup fails
TransitionRaises(c, name, timestep) ==
    /\ transition_calls' = Append(transition_calls,
                                  MkTransitionCall(c, name, timestep, state[c], "KeyError"))
    /\ UNCHANGED <<components, state, landfill_material_inventory,
                   use_material_inventory, effects>>

\* transition, lines 139-146, with the effects called in the order given
TransitionMoves(c, name, timestep, next_state, functions) ==
    \E lifespan \in LifespanOf(next_state) :
    \E component \in {[components[c] EXCEPT !.initial_lifespan_timesteps = lifespan]} :
    \E done \in {CallEffects(functions,
                             MkContext(landfill_material_inventory, use_material_inventory),
                             c, component, next_state.state, timestep)} :
        /\ state' = [state EXCEPT ![c] = next_state.state]
        /\ components' = [components EXCEPT ![c] = component]
        /\ landfill_material_inventory' = done.context.landfill_material_inventory
        /\ use_material_inventory' = done.context.use_material_inventory
        /\ effects' = effects \o done.called
        /\ transition_calls' = Append(transition_calls,
                                      MkTransitionCall(c, name, timestep, state[c],
                                                       done.context.raised))

\* A transition that does nothing when the lookup fails
transition_silent(c, name, timestep) ==
    /\ Len(transition_calls) < MaxCalls
    /\ LET lookup == StateTransition(state[c], name)
       IN  IF lookup \notin DOMAIN make_transitions_table
           THEN /\ transition_calls' = Append(transition_calls,
                                              MkTransitionCall(c, name, timestep,
                                                               state[c], "none"))
                /\ UNCHANGED <<components, state, landfill_material_inventory,
                               use_material_inventory, effects>>
           ELSE LET next_state == make_transitions_table[lookup]
                IN  TransitionMoves(c, name, timestep, next_state,
                                    <<next_state.state_entry_function,
                                      next_state.state_exit_function>>)
    /\ UNCHANGED desVars
    /\ UNCHANGED ranking

\* A transition that calls the exit function before the entry function
transition_exit_first(c, name, timestep) ==
    /\ Len(transition_calls) < MaxCalls
    /\ LET lookup == StateTransition(state[c], name)
       IN  IF lookup \notin DOMAIN make_transitions_table
           THEN TransitionRaises(c, name, timestep)
           ELSE LET next_state == make_transitions_table[lookup]
                IN  TransitionMoves(c, name, timestep, next_state,
                                    <<next_state.state_exit_function,
                                      next_state.state_entry_function>>)
    /\ UNCHANGED desVars
    /\ UNCHANGED ranking

\* Component.transition(transition, timestep), lines 134-146
transition(c, name, timestep) ==
    /\ Len(transition_calls) < MaxCalls
    /\ LET lookup == StateTransition(state[c], name)
       IN  IF lookup \notin DOMAIN make_transitions_table
           THEN TransitionRaises(c, name, timestep)
           ELSE LET next_state == make_transitions_table[lookup]
                IN  TransitionMoves(c, name, timestep, next_state,
                                    <<next_state.state_entry_function,
                                      next_state.state_exit_function>>)
    /\ UNCHANGED desVars
    /\ UNCHANGED ranking

\* The transitions a caller asks for, and the timesteps it asks at
Transitions == {"landfilling", "using"}
CallTimesteps == 0..MaxCallTimestep

\* Components in use: each was entered into the use inventory at timestep 0
StateMachinePopulations ==
    UNION {{[c \in 1..n |-> NewComponent(KindAt(fleet, c), min_year, MaxLifespan,
                                         MassOf(KindAt(fleet, c)))] : fleet \in Fleets} :
           n \in 1..MaxComponents}

RECURSIVE AllInUse(_, _)
AllInUse(context, population) ==
    IF population = <<>> THEN context
    ELSE AllInUse(use(context, Head(population), 0), Tail(population))

InitStateMachine ==
    /\ components \in StateMachinePopulations
    /\ state = [c \in DOMAIN components |-> "use"]
    /\ landfill_material_inventory = NewInventory(FALSE)
    /\ use_material_inventory =
           AllInUse(MkContext(NewInventory(FALSE), NewInventory(FALSE)),
                    components).use_material_inventory
    /\ effects = <<>>
    /\ transition_calls = <<>>
    /\ now = 0
    /\ queue = {}
    /\ next_eid = 1
    /\ pc = [c \in DOMAIN components |-> "created"]
    /\ pathway = [c \in DOMAIN components |-> <<>>]
    /\ segment = [c \in DOMAIN components |-> NoSegment]
    /\ count_facility_inventories = [f \in Facilities |-> NewInventory(FALSE)]
    /\ mass_facility_inventories = [f \in Facilities |-> NewInventory(FALSE)]
    /\ supply_chain = DesGraph
    /\ node_cost = MkCosts(1, 2, 3)
    /\ error = "none"
    /\ finished = FALSE
    /\ path_choice = [c \in DOMAIN components |-> <<>>]
    /\ built = [c \in DOMAIN components |-> <<>>]
    /\ begin_ts = [c \in DOMAIN components |-> NoTime]
    /\ end_ts = [c \in DOMAIN components |-> NoTime]
    /\ calls = <<>>
    /\ ranking = <<>>
    /\ cost_params = FixedCosts(node_cost)
    /\ cumulative_volume = [n \in Facilities |-> 0]
    /\ cost_calls = <<>>
    /\ technology_data = <<>>
    /\ tables = NoTables
    /\ NoRuns
    /\ component_specs = <<>>

NextStateMachine ==
    \E c \in ComponentIds, name \in Transitions, timestep \in CallTimesteps :
        transition(c, name, timestep)

SpecStateMachine == InitStateMachine /\ [][NextStateMachine]_vars

(***************************************************************************)
(* Path selection over the supply chains that can be built on the four     *)
(* facilities: any set of the connections below, added to the graph in     *)
(* the order listed or in the reverse order.  One component begins life in *)
(* the first year and follows the pathway chosen for it.                   *)
(***************************************************************************)
Connections ==
    <<MkEdge(InUse1, Recycling2, 1, NoDist),
      MkEdge(InUse1, Landfill3, 4, NoDist),
      MkEdge(Recycling2, InUse1, 0, NoDist),
      MkEdge(Recycling2, Landfill3, 1, NoDist),
      MkEdge(Recycling2, NextUse4, 1, NoDist),
      MkEdge(NextUse4, Landfill3, 0, NoDist),
      MkEdge(InUse1, NextUse4, 2, NoDist)>>

Reverse(s) == [i \in DOMAIN s |-> s[Len(s) + 1 - i]]

EdgeLists ==
    UNION {{SelectSeq(Connections, LAMBDA e : e \in chosen),
            Reverse(SelectSeq(Connections, LAMBDA e : e \in chosen))} :
           chosen \in SUBSET Range(Connections)}

SupplyChains == {[nodes |-> DesGraph.nodes, edges |-> edges] : edges \in EdgeLists}

\* The processing costs of the simulation, and costs under which routes tie
PathCosts == DesCosts \cup {MkCosts(2, 2, 2)}

InitPaths ==
    /\ components = <<NewComponent("blade", min_year, 1, MassOf("blade"))>>
    /\ supply_chain \in SupplyChains
    /\ node_cost \in PathCosts
    /\ now = 0
    /\ queue = {MkEvent(0, URGENT, c, c, "begin_life") : c \in DOMAIN components}
    /\ next_eid = Len(components) + 1
    /\ pc = [c \in DOMAIN components |-> "created"]
    /\ pathway = [c \in DOMAIN components |-> <<>>]
    /\ segment = [c \in DOMAIN components |-> NoSegment]
    /\ count_facility_inventories = [f \in Facilities |-> NewInventory(FALSE)]
    /\ mass_facility_inventories = [f \in Facilities |-> NewInventory(FALSE)]
    /\ error = "none"
    /\ finished = FALSE
    /\ path_choice = [c \in DOMAIN components |-> <<>>]
    /\ built = [c \in DOMAIN components |-> <<>>]
    /\ begin_ts = [c \in DOMAIN components |-> NoTime]
    /\ end_ts = [c \in DOMAIN components |-> NoTime]
    /\ calls = <<>>
    /\ state = [c \in DOMAIN components |-> ""]
    /\ landfill_material_inventory = NewInventory(FALSE)
    /\ use_material_inventory = NewInventory(FALSE)
    /\ effects = <<>>
    /\ transition_calls = <<>>
    /\ ranking = <<>>
    /\ cost_params = FixedCosts(node_cost)
    /\ cumulative_volume = [n \in Facilities |-> 0]
    /\ cost_calls = <<>>
    /\ technology_data = <<>>
    /\ tables = NoTables
    /\ NoRuns
    /\ component_specs = <<>>

SpecPaths == InitPaths /\ [][Next]_vars

(***************************************************************************)
(* The cost state of the CostGraph under update_costs and choose_paths.    *)
(* Two routes compete: in use -> landfill, of cost 10 at first, and        *)
(* in use -> recycling -> next use, of cost 7.  The landfill learns.       *)
(***************************************************************************)
MaxCostCalls == 4
MaxElapsed == 2

TwoRoutes ==
    [nodes |-> DesGraph.nodes,
     edges |-> <<MkEdge(InUse1, Recycling2, 1, NoDist),
                 MkEdge(InUse1, Landfill3, 4, NoDist),
                 MkEdge(Recycling2, NextUse4, 1, NoDist)>>]

LandfillRoute == <<InUse1, Landfill3>>
RecyclingRoute == <<InUse1, Recycling2, NextUse4>>

TwoRoutesCosts == MkCosts(2, 6, 3)

BaseVolumes == {1, 2}
LearningExponents == {1, 2}
FloorCosts == {1, 2}

\* The learning curves: the landfill learns, the other nodes do not
LandfillLearns(base_volume, learning_exponent, floor) ==
    [FixedCosts(TwoRoutesCosts) EXCEPT
        ![Landfill3] = LearningCurve(TwoRoutesCosts[Landfill3], base_volume,
                                     learning_exponent, floor)]

\* The volume a period brings to the landfill
ElapsedVolumes ==
    {[n \in Facilities |-> IF n = Landfill3 THEN v ELSE 0] : v \in 0..MaxElapsed}

MkCostCall(op, before, costs, volume, selected) ==
    [op |-> op, before |-> before, costs |-> costs, volume |-> volume,
     selected |-> selected]

costCallFrame == <<now, queue, next_eid, components, pc, pathway, segment, ledgerVars,
                   supply_chain, cost_params, error, finished, desHistory, smVars,
                   technology_data, component_specs, tables, seedVars, pending,
               loopVars, netw>>

\* CostGraph.update_costs(elapsed volume per node)
UpdateCosts(elapsed) ==
    /\ Len(cost_calls) < MaxCostCalls
    /\ \E updated \in {update_costs(cost_params, cumulative_volume, elapsed)} :
           /\ cumulative_volume' = updated.volume
           /\ node_cost' = updated.costs
           /\ cost_calls' = Append(cost_calls,
                                   MkCostCall("update_costs", node_cost, updated.costs,
                                              updated.volume, <<>>))
    /\ UNCHANGED ranking
    /\ UNCHANGED costCallFrame

\* CostGraph.choose_paths()
ChoosePaths ==
    /\ Len(cost_calls) < MaxCostCalls
    /\ \E choice \in {choose_paths(supply_chain, node_cost)} :
           /\ ranking' = choice
           /\ cost_calls' = Append(cost_calls,
                                   MkCostCall("choose_paths", node_cost, node_cost,
                                              cumulative_volume,
                                              IF choice = <<>> THEN <<>>
                                              ELSE FacilitiesOf(choice[1].path)))
    /\ UNCHANGED <<node_cost, cumulative_volume>>
    /\ UNCHANGED costCallFrame

InitCosts ==
    /\ components = <<NewComponent("blade", min_year, 1, MassOf("blade"))>>
    /\ supply_chain = TwoRoutes
    /\ node_cost = TwoRoutesCosts
    /\ cost_params \in {LandfillLearns(b, e, f) :
                           b \in BaseVolumes, e \in LearningExponents, f \in FloorCosts}
    /\ cumulative_volume = [n \in Facilities |-> 0]
    /\ cost_calls = <<>>
    /\ technology_data = <<>>
    /\ tables = NoTables
    /\ NoRuns
    /\ component_specs = <<>>
    /\ ranking = <<>>
    /\ now = 0
    /\ queue = {}
    /\ next_eid = 1
    /\ pc = [c \in DOMAIN components |-> "created"]
    /\ pathway = [c \in DOMAIN components |-> <<>>]
    /\ segment = [c \in DOMAIN components |-> NoSegment]
    /\ count_facility_inventories = [f \in Facilities |-> NewInventory(FALSE)]
    /\ mass_facility_inventories = [f \in Facilities |-> NewInventory(FALSE)]
    /\ error = "none"
    /\ finished = FALSE
    /\ path_choice = [c \in DOMAIN components |-> <<>>]
    /\ built = [c \in DOMAIN components |-> <<>>]
    /\ begin_ts = [c \in DOMAIN components |-> NoTime]
    /\ end_ts = [c \in DOMAIN components |-> NoTime]
    /\ calls = <<>>
    /\ state = [c \in DOMAIN components |-> ""]
    /\ landfill_material_inventory = NewInventory(FALSE)
    /\ use_material_inventory = NewInventory(FALSE)
    /\ effects = <<>>
    /\ transition_calls = <<>>

NextCosts ==
    \/ \E elapsed \in ElapsedVolumes : UpdateCosts(elapsed)
    \/ ChoosePaths

SpecCosts == InitCosts /\ [][NextCosts]_vars

(***************************************************************************)
(* The component list of a run (Scenario.execute): each row of the         *)
(* technology table names an in use facility; find_upstream_neighbor gives *)
(* the manufacturing facility that feeds it.  The supply chains hold two   *)
(* manufacturers and two in use facilities, and any set of the connections *)
(* from a manufacturer to an in use facility.                              *)
(***************************************************************************)
MaxRows == 2
MaxTechnology == 2

NoFacility == 0 - 1

Manufacturing10 == MkNode("manufacturing", 10).name
Manufacturing11 == MkNode("manufacturing", 11).name
InUse2 == MkNode("in use", 2).name

UpstreamConnections ==
    <<MkEdge(Manufacturing10, InUse1, 0, 3),
      MkEdge(Manufacturing11, InUse1, 0, 2),
      MkEdge(Manufacturing10, InUse2, 0, 1),
      MkEdge(Manufacturing11, InUse2, 0, 4)>>

UpstreamChains ==
    {[nodes |-> <<MkNode("manufacturing", 10), MkNode("manufacturing", 11),
                  MkNode("in use", 1), MkNode("in use", 2)>>,
      edges |-> SelectSeq(UpstreamConnections, LAMBDA e : e \in chosen)] :
        chosen \in SUBSET Range(UpstreamConnections)}

\* DiGraph.predecessors(node) of one class, in the order of the edges
RECURSIVE PredecessorsOfClass(_, _, _, _)
PredecessorsOfClass(G, edges, node, class) ==
    IF edges = <<>> THEN <<>>
    ELSE (IF Head(edges).v = node /\ NodeAttr(G, Head(edges).u).step = class
          THEN <<Head(edges).u>> ELSE <<>>)
         \o PredecessorsOfClass(G, Tail(edges), node, class)

\* The nodes of a facility that are of a class
NodesOfFacility(G, facility_id, class) ==
    SelectSeq(G.nodes, LAMBDA n : n.facility_id = facility_id /\ n.step = class)

\* An upstream neighbor that is the first of the predecessors when there
\* are several
find_upstream_neighbor_first(G, facility_id) ==
    LET in_use == NodesOfFacility(G, facility_id, SourceStep)
        upstream == IF in_use = <<>> THEN <<>>
                    ELSE PredecessorsOfClass(G, G.edges, in_use[1].name, "manufacturing")
    IN  IF Len(upstream) >= 1 THEN NodeAttr(G, upstream[1]).facility_id
        ELSE NoFacility

\* find_upstream_neighbor(facility_id): the facility id of the one
\* manufacturing predecessor of the in use facility; NoFacility stands for
\* its failure
find_upstream_neighbor(G, facility_id) ==
    LET in_use == NodesOfFacility(G, facility_id, SourceStep)
        upstream == IF in_use = <<>> THEN <<>>
                    ELSE PredecessorsOfClass(G, G.edges, in_use[1].name, "manufacturing")
    IN  IF Len(upstream) = 1 THEN NodeAttr(G, upstream[1]).facility_id
        ELSE NoFacility

circular_components == <<"blade", "tower">>

\* One entry for each technology unit, whatever its components
RowComponentsOnePerTechnology(row, manuf_facility_id) ==
    [i \in 1..row.n_technology |->
        [year |-> row.year,
         kind |-> circular_components[1],
         manuf_facility_id |-> manuf_facility_id,
         in_use_facility_id |-> row.facility_id]]

\* scenario.py lines 420-431: n_technology times, one entry for each
\* circular component
RowComponents(row, manuf_facility_id) ==
    [i \in 1..(row.n_technology * Len(circular_components)) |->
        [year |-> row.year,
         kind |-> circular_components[((i - 1) % Len(circular_components)) + 1],
         manuf_facility_id |-> manuf_facility_id,
         in_use_facility_id |-> row.facility_id]]

\* scenario.py lines 413-431: the loop over the rows; a failure of
\* find_upstream_neighbor ends it with no list
RECURSIVE ComponentList(_, _, _)
ComponentList(G, rows, sofar) ==
    IF rows = <<>> THEN [error |-> "none", components |-> sofar]
    ELSE LET manuf_facility_id == find_upstream_neighbor(G, Head(rows).facility_id)
         IN  IF manuf_facility_id = NoFacility
             THEN [error |-> "find_upstream_neighbor", components |-> <<>>]
             ELSE ComponentList(G, Tail(rows),
                                sofar \o RowComponents(Head(rows), manuf_facility_id))

TechnologyRows ==
    {[year |-> min_year, facility_id |-> f, n_technology |-> n] :
        f \in {1, 2}, n \in 1..MaxTechnology}

TechnologyTables == UNION {[1..k -> TechnologyRows] : k \in 1..MaxRows}

\* Scenario.execute, lines 410-433
BuildComponentList ==
    /\ component_specs = <<>>
    /\ error = "none"
    /\ \E list \in {ComponentList(supply_chain, technology_data, <<>>)} :
           /\ error' = list.error
           /\ component_specs' = list.components
    /\ UNCHANGED <<now, queue, next_eid, components, pc, pathway, segment, ledgerVars,
                   supply_chain, node_cost, cost_params, cumulative_volume, cost_calls,
                   technology_data, tables, seedVars, finished, desHistory, smVars,
                   ranking, pending, loopVars, netw>>

InitTechnology ==
    /\ supply_chain \in UpstreamChains
    /\ technology_data \in TechnologyTables
    /\ component_specs = <<>>
    /\ tables = NoTables
    /\ NoRuns
    /\ components = <<>>
    /\ node_cost = MkCosts(1, 2, 3)
    /\ cost_params = FixedCosts(node_cost)
    /\ cumulative_volume = [n \in Facilities |-> 0]
    /\ cost_calls = <<>>
    /\ ranking = <<>>
    /\ now = 0
    /\ queue = {}
    /\ next_eid = 1
    /\ pc = <<>>
    /\ pathway = <<>>
    /\ segment = <<>>
    /\ count_facility_inventories = [f \in Facilities |-> NewInventory(FALSE)]
    /\ mass_facility_inventories = [f \in Facilities |-> NewInventory(FALSE)]
    /\ error = "none"
    /\ finished = FALSE
    /\ path_choice = <<>>
    /\ built = <<>>
    /\ begin_ts = <<>>
    /\ end_ts = <<>>
    /\ calls = <<>>
    /\ state = <<>>
    /\ landfill_material_inventory = NewInventory(FALSE)
    /\ use_material_inventory = NewInventory(FALSE)
    /\ effects = <<>>
    /\ transition_calls = <<>>

NextTechnology == BuildComponentList

SpecTechnology == InitTechnology /\ [][NextTechnology]_vars

(***************************************************************************)
(* Building the supply chain from the tables.  A power plant holds the     *)
(* step "in use", a grinder the step "grind", a shredder the steps         *)
(* "grind1" and "grind2", a landfill the step "landfill"; the locations    *)
(* table lists up to MaxFacilities facilities with different ids.          *)
(***************************************************************************)
MaxFacilities == 3

FacilityIds == {1, 2, 11}
FacilityTypes == {"power plant", "grinder", "shredder", "landfill"}

StepsOfType(facility_type) ==
    IF facility_type = "power plant" THEN <<"in use">>
    ELSE IF facility_type = "grinder" THEN <<"grind">>
    ELSE IF facility_type = "shredder" THEN <<"grind1", "grind2">>
    ELSE <<"landfill">>

steps_df == <<[facility_type |-> "shredder", step |-> "grind1", next_step |-> "grind2"]>>

interconnect_df ==
    <<[u_step |-> "in use", v_step |-> "grind", cost_method |-> 1],
      [u_step |-> "in use", v_step |-> "grind1", cost_method |-> 1],
      [u_step |-> "grind", v_step |-> "landfill", cost_method |-> 1],
      [u_step |-> "grind2", v_step |-> "landfill", cost_method |-> 1],
      [u_step |-> "in use", v_step |-> "landfill", cost_method |-> 4]>>

\* The rows of costs_df: the steps of each facility, facility by facility
RECURSIVE CostRows(_)
CostRows(loc_df) ==
    IF loc_df = <<>> THEN <<>>
    ELSE [i \in DOMAIN StepsOfType(Head(loc_df).facility_type) |->
             [facility_id |-> Head(loc_df).facility_id,
              step |-> StepsOfType(Head(loc_df).facility_type)[i],
              cost_method |-> 0]]
         \o CostRows(Tail(loc_df))

Locations ==
    UNION {{[i \in 1..k |-> [facility_id |-> ids[i], facility_type |-> types[i]]] :
              ids \in {f \in [1..k -> FacilityIds] :
                          \A i, j \in 1..k : i # j => f[i] # f[j]},
              types \in [1..k -> FacilityTypes]} :
           k \in 1..MaxFacilities}

TablesOf(loc_df) ==
    [loc_df |-> loc_df, costs_df |-> CostRows(loc_df), steps_df |-> steps_df,
     interconnect_df |-> interconnect_df]

\* CostGraph.build_supplychain_graph()
BuildSupplychainGraph ==
    /\ tables # NoTables
    /\ supply_chain = EmptyGraph
    /\ supply_chain' = build_supplychain_graph(supply_chain, tables)
    /\ UNCHANGED <<now, queue, next_eid, components, pc, pathway, segment, ledgerVars,
                   node_cost, cost_params, cumulative_volume, cost_calls,
                   technology_data, component_specs, tables, error, finished,
                   desHistory, smVars, ranking, seedVars, pending, loopVars, netw>>

InitBuild ==
    /\ tables \in {TablesOf(loc_df) : loc_df \in Locations}
    /\ NoRuns
    /\ supply_chain = EmptyGraph
    /\ technology_data = <<>>
    /\ component_specs = <<>>
    /\ components = <<>>
    /\ node_cost = MkCosts(1, 2, 3)
    /\ cost_params = FixedCosts(node_cost)
    /\ cumulative_volume = [n \in Facilities |-> 0]
    /\ cost_calls = <<>>
    /\ ranking = <<>>
    /\ now = 0
    /\ queue = {}
    /\ next_eid = 1
    /\ pc = <<>>
    /\ pathway = <<>>
    /\ segment = <<>>
    /\ count_facility_inventories = [f \in Facilities |-> NewInventory(FALSE)]
    /\ mass_facility_inventories = [f \in Facilities |-> NewInventory(FALSE)]
    /\ error = "none"
    /\ finished = FALSE
    /\ path_choice = <<>>
    /\ built = <<>>
    /\ begin_ts = <<>>
    /\ end_ts = <<>>
    /\ calls = <<>>
    /\ state = <<>>
    /\ landfill_material_inventory = NewInventory(FALSE)
    /\ use_material_inventory = NewInventory(FALSE)
    /\ effects = <<>>
    /\ transition_calls = <<>>

NextBuild == BuildSupplychainGraph

SpecBuild == InitBuild /\ [][NextBuild]_vars

(***************************************************************************)
(* Two executions of the program with the same inputs and the same seed.   *)
(* The lifespans of the circular components are drawn from the generator   *)
(* of the scenario (scenario.py, lines 89 and 436-468); the generator is   *)
(* a linear congruential one over a small state space.                     *)
(***************************************************************************)
MaxSeed == 3
Seeds == 0..MaxSeed

RngModulus == 8

\* np.random.default_rng(seed)
default_rng(s) == s % RngModulus

\* The generator after one draw
Advance(generator) == (5 * generator + 3) % RngModulus

\* weibull_min.rvs(..., size=1, random_state=rng)[0], in timesteps
rvs(generator) == generator % (MaxLifespan + 1)

\* lifespan_fns[kind](): a draw for a circular component, the fixed lifetime
\* for the others
lifespan_fns(kind, generator) ==
    IF kind = circular_components[1]
    THEN [lifespan |-> rvs(generator), rng |-> Advance(generator)]
    ELSE [lifespan |-> MaxLifespan, rng |-> generator]

\* Context.populate(components, lifespan_fns): one component for each entry
\* of the schedule, its lifespan drawn in the order of the schedule
RECURSIVE populate(_, _)
populate(schedule, generator) ==
    IF schedule = <<>>
    THEN [components |-> <<>>, rng |-> generator]
    ELSE LET entry == Head(schedule)
             drawn == lifespan_fns(entry.kind, generator)
             rest == populate(Tail(schedule), drawn.rng)
         IN  [components |-> <<NewComponent(entry.kind, entry.year, drawn.lifespan,
                                            MassOf(entry.kind))>> \o rest.components,
              rng |-> rest.rng]

\* The schedules: (kind, year) of each component
Schedules ==
    UNION {{[c \in 1..n |-> [kind |-> KindAt(fleet, c), year |-> year[c]]] :
              fleet \in Fleets, year \in [1..n -> Years]} :
           n \in 1..MaxComponents}

\* A generator that goes on where the earlier execution left it
RngContinued(s, earlier) == earlier

\* The generator an execution starts with: Scenario.__init__ seeds a new one
RngAtStart(s, earlier) == default_rng(s)

\* What Context.run returns: the count and mass inventories of every facility
Snapshot == [count |-> count_facility_inventories, mass |-> mass_facility_inventories]

Ended == finished \/ error # "none"

InitRuns ==
    /\ seed \in Seeds
    /\ component_specs \in Schedules
    /\ \E p \in {populate(component_specs, default_rng(seed))} :
           /\ components = p.components
           /\ rng = p.rng
    /\ run = 1
    /\ snapshot = <<>>
    /\ trace = <<>>
    /\ pending = <<>>
    /\ NoFiles
    /\ now = 0
    /\ queue = {MkEvent(0, URGENT, c, c, "begin_life") : c \in DOMAIN components}
    /\ next_eid = Len(components) + 1
    /\ pc = [c \in DOMAIN components |-> "created"]
    /\ pathway = [c \in DOMAIN components |-> <<>>]
    /\ segment = [c \in DOMAIN components |-> NoSegment]
    /\ count_facility_inventories = [f \in Facilities |-> NewInventory(FALSE)]
    /\ mass_facility_inventories = [f \in Facilities |-> NewInventory(FALSE)]
    /\ supply_chain = DesGraph
    /\ node_cost \in DesCosts
    /\ error = "none"
    /\ finished = FALSE
    /\ path_choice = [c \in DOMAIN components |-> <<>>]
    /\ built = [c \in DOMAIN components |-> <<>>]
    /\ begin_ts = [c \in DOMAIN components |-> NoTime]
    /\ end_ts = [c \in DOMAIN components |-> NoTime]
    /\ calls = <<>>
    /\ state = [c \in DOMAIN components |-> ""]
    /\ landfill_material_inventory = NewInventory(FALSE)
    /\ use_material_inventory = NewInventory(FALSE)
    /\ effects = <<>>
    /\ transition_calls = <<>>
    /\ ranking = <<>>
    /\ cost_params = FixedCosts(node_cost)
    /\ cumulative_volume = [n \in Facilities |-> 0]
    /\ cost_calls = <<>>
    /\ technology_data = <<>>
    /\ tables = NoTables

\* The program is executed again on the same inputs with the same seed
SecondRun ==
    /\ run = 1
    /\ Ended
    /\ run' = 2
    /\ snapshot' = Snapshot
    /\ \E p \in {populate(component_specs, RngAtStart(seed, rng))} :
           /\ components' = p.components
           /\ rng' = p.rng
           /\ queue' = {MkEvent(0, URGENT, c, c, "begin_life") : c \in DOMAIN p.components}
           /\ next_eid' = Len(p.components) + 1
           /\ pc' = [c \in DOMAIN p.components |-> "created"]
           /\ pathway' = [c \in DOMAIN p.components |-> <<>>]
           /\ segment' = [c \in DOMAIN p.components |-> NoSegment]
           /\ path_choice' = [c \in DOMAIN p.components |-> <<>>]
           /\ built' = [c \in DOMAIN p.components |-> <<>>]
           /\ begin_ts' = [c \in DOMAIN p.components |-> NoTime]
           /\ end_ts' = [c \in DOMAIN p.components |-> NoTime]
    /\ trace' = <<>>
    /\ now' = 0
    /\ count_facility_inventories' = [f \in Facilities |-> NewInventory(FALSE)]
    /\ mass_facility_inventories' = [f \in Facilities |-> NewInventory(FALSE)]
    /\ error' = "none"
    /\ finished' = FALSE
    /\ calls' = <<>>
    /\ ranking' = <<>>
    /\ UNCHANGED <<seed, component_specs, supply_chain, node_cost, cost_params,
                   cumulative_volume, cost_calls, technology_data, tables, smVars,
                   pending, loopVars, netw>>

NextRuns ==
    \/ Next
    \/ SecondRun

SpecRuns == InitRuns /\ [][NextRuns]_vars

(***************************************************************************)
(* Context.run with the periodic update of the CostGraph: a process that   *)
(* waits cost_graph_update_interval_timesteps, calls update_costs with the *)
(* cumulative volumes of the mass inventories, and waits again.            *)
(* update_costs writes the cost of one node after the other.               *)
(***************************************************************************)
cost_graph_update_interval_timesteps == 3

UpdateProcess == 0

\* The curves of the run: the nodes in use and landfill learn
RunCurves ==
    [FixedCosts(MkCosts(6, 6, 3)) EXCEPT
        ![InUse1] = LearningCurve(4, 1, 1, 0),
        ![Landfill3] = LearningCurve(6, 1, 1, 1)]

\* The costs update_costs leaves: each node priced on its cumulative volume
SettledCosts ==
    [n \in DOMAIN cost_params |-> LearningCost(cost_params[n], cumulative_volume[n])]

\* The cumulative volume of a facility at a timestep, in tonnes, from its
\* mass inventory
FacilityVolume(n, t) ==
    CumulativeInflowAt(mass_facility_inventories[n], "blade", t)
        + CumulativeInflowAt(mass_facility_inventories[n], "tower", t)

\* The update process starts and waits for the first period
StartUpdateProcess ==
    \E e \in queue :
        /\ Due(e, UpdateProcess, "update_process")
        /\ now' = e.time
        /\ trace' = Append(trace, e)
        /\ queue' = (queue \ {e}) \cup
                      {Timeout(e.time, cost_graph_update_interval_timesteps,
                               UpdateProcess, "update_timeout")}
        /\ next_eid' = next_eid + 1
        /\ UNCHANGED <<components, pc, pathway, segment, ledgerVars, graphVars, error,
                       finished, path_choice, built, begin_ts, end_ts, calls, smVars,
                       ranking>>

\* The period is over: update_costs takes the volumes and begins to write
UpdateBegins ==
    \E e \in queue :
        /\ Due(e, UpdateProcess, "update_timeout")
        /\ now' = e.time
        /\ trace' = Append(trace, e)
        /\ queue' = queue \ {e}
        /\ \E elapsed \in {[n \in Facilities |->
                              FacilityVolume(n, e.time) - cumulative_volume[n]]} :
           \E updated \in {update_costs(cost_params, cumulative_volume, elapsed)} :
               /\ cumulative_volume' = updated.volume
               /\ cost_calls' = Append(cost_calls,
                                       MkCostCall("update_costs", node_cost, updated.costs,
                                                  updated.volume, <<>>))
        /\ pending' = [i \in DOMAIN supply_chain.nodes |-> supply_chain.nodes[i].name]
        \* update_costs is called with the year of the timestep
        /\ netw' = [netw EXCEPT !.year = YearOf(e.time),
                                !.path_dict = PathDict(YearOf(e.time))]
        /\ UNCHANGED <<next_eid, components, pc, pathway, segment, ledgerVars,
                       supply_chain, node_cost, cost_params, technology_data,
                       component_specs, tables, seedVars, loopVars, error, finished,
                       path_choice, built, begin_ts, end_ts, calls, smVars, ranking>>

\* update_costs writes the cost of the next node; after the last one the
\* process waits for the next period
UpdateWrites ==
    /\ ~finished
    /\ error = "none"
    /\ pending # <<>>
    /\ node_cost' = [node_cost EXCEPT ![Head(pending)] = SettledCosts[Head(pending)]]
    /\ pending' = Tail(pending)
    /\ IF Tail(pending) = <<>>
       THEN /\ queue' = queue \cup
                          {Timeout(now, cost_graph_update_interval_timesteps,
                                   UpdateProcess, "update_timeout")}
            /\ next_eid' = next_eid + 1
       ELSE UNCHANGED <<queue, next_eid>>
    /\ UNCHANGED <<now, components, pc, pathway, segment, ledgerVars, supply_chain,
                   cost_params, cumulative_volume, cost_calls, technology_data,
                   component_specs, tables, seedVars, loopVars, netw, error, finished,
                   desHistory, smVars, ranking>>

InitUpdates ==
    /\ components \in Populations
    /\ now = 0
    /\ queue = {MkEvent(0, URGENT, c, c, "begin_life") : c \in DOMAIN components}
                 \cup {MkEvent(0, URGENT, Len(components) + 1, UpdateProcess,
                               "update_process")}
    /\ next_eid = Len(components) + 2
    /\ pc = [c \in DOMAIN components |-> "created"]
    /\ pathway = [c \in DOMAIN components |-> <<>>]
    /\ segment = [c \in DOMAIN components |-> NoSegment]
    /\ count_facility_inventories = [f \in Facilities |-> NewInventory(FALSE)]
    /\ mass_facility_inventories = [f \in Facilities |-> NewInventory(FALSE)]
    /\ supply_chain = DesGraph
    /\ cost_params = RunCurves
    /\ cumulative_volume = [n \in Facilities |-> 0]
    /\ node_cost = SettledCosts
    /\ error = "none"
    /\ finished = FALSE
    /\ path_choice = [c \in DOMAIN components |-> <<>>]
    /\ built = [c \in DOMAIN components |-> <<>>]
    /\ begin_ts = [c \in DOMAIN components |-> NoTime]
    /\ end_ts = [c \in DOMAIN components |-> NoTime]
    /\ calls = <<>>
    /\ state = [c \in DOMAIN components |-> ""]
    /\ landfill_material_inventory = NewInventory(FALSE)
    /\ use_material_inventory = NewInventory(FALSE)
    /\ effects = <<>>
    /\ transition_calls = <<>>
    /\ ranking = <<>>
    /\ cost_calls = <<>>
    /\ technology_data = <<>>
    /\ tables = NoTables
    /\ NoRuns
    /\ component_specs = <<>>

NextUpdates ==
    \/ Next
    \/ StartUpdateProcess
    \/ UpdateBegins
    \/ UpdateWrites

SpecUpdates == InitUpdates /\ [][NextUpdates]_vars

(***************************************************************************)
(* One inventory under calls of increment_quantity, made by a caller and   *)
(* by the effect leave_use (simple_model.py, lines 94-117), at timesteps   *)
(* that do not decrease.  The inventory is use_material_inventory of the   *)
(* context, configured with or without can_be_negative.                    *)
(***************************************************************************)
MaxInventoryCalls == 3

Deltas == {0 - 2, 0 - 1, 1, 2}

\* What a call was made with, the level it found and whether it raised
MkInventoryCall(item_name, quantity, timestep, before, raised) ==
    [item |-> item_name, quantity |-> quantity, timestep |-> timestep,
     before |-> before, raised |-> raised]

\* The timesteps the next call can be made at
NextCallTimesteps ==
    IF calls = <<>> THEN 0..MaxCallTimestep
    ELSE {t \in 0..MaxCallTimestep : t >= Last(calls).timestep}

inventoryFrame == <<now, queue, next_eid, components, pc, pathway, segment, ledgerVars,
                    graphVars, finished, path_choice, built, begin_ts, end_ts, trace,
                    state, landfill_material_inventory, effects, transition_calls,
                    ranking>>

\* The context after a call, and the record of the call
Booked(after, item_name, quantity, timestep) ==
    /\ use_material_inventory' = after.use_material_inventory
    /\ error' = after.raised
    /\ calls' = Append(calls,
                       MkInventoryCall(item_name, quantity, timestep,
                                       use_material_inventory.level[item_name],
                                       after.raised # "none"))
    /\ UNCHANGED inventoryFrame

\* use_material_inventory.increment_quantity(item_name, quantity, timestep)
IncrementQuantity(item_name, quantity, timestep) ==
    /\ Len(calls) < MaxInventoryCalls
    /\ \E after \in {EffectBooks(MkContext(landfill_material_inventory,
                                           use_material_inventory),
                                 "use_material_inventory", item_name, quantity,
                                 timestep)} :
           Booked(after, item_name, quantity, timestep)

\* leave_use(context, component, timestep)
LeaveUse(c, timestep) ==
    /\ Len(calls) < MaxInventoryCalls
    /\ \E after \in {leave_use(MkContext(landfill_material_inventory,
                                         use_material_inventory),
                               components[c], timestep)} :
           Booked(after, components[c].kind, 0 - 1, timestep)

InitInventory ==
    /\ components = <<NewComponent("blade", min_year, 1, MassOf("blade"))>>
    /\ use_material_inventory \in {NewInventory(FALSE), NewInventory(TRUE)}
    /\ landfill_material_inventory = NewInventory(FALSE)
    /\ state = [c \in DOMAIN components |-> "use"]
    /\ effects = <<>>
    /\ transition_calls = <<>>
    /\ now = 0
    /\ queue = {}
    /\ next_eid = 1
    /\ pc = [c \in DOMAIN components |-> "created"]
    /\ pathway = [c \in DOMAIN components |-> <<>>]
    /\ segment = [c \in DOMAIN components |-> NoSegment]
    /\ count_facility_inventories = [f \in Facilities |-> NewInventory(FALSE)]
    /\ mass_facility_inventories = [f \in Facilities |-> NewInventory(FALSE)]
    /\ supply_chain = DesGraph
    /\ node_cost = MkCosts(1, 2, 3)
    /\ error = "none"
    /\ finished = FALSE
    /\ path_choice = [c \in DOMAIN components |-> <<>>]
    /\ built = [c \in DOMAIN components |-> <<>>]
    /\ begin_ts = [c \in DOMAIN components |-> NoTime]
    /\ end_ts = [c \in DOMAIN components |-> NoTime]
    /\ calls = <<>>
    /\ ranking = <<>>
    /\ cost_params = FixedCosts(node_cost)
    /\ cumulative_volume = [n \in Facilities |-> 0]
    /\ cost_calls = <<>>
    /\ technology_data = <<>>
    /\ tables = NoTables
    /\ NoRuns
    /\ component_specs = <<>>

NextInventory ==
    \/ \E item_name \in Kinds, quantity \in Deltas, timestep \in NextCallTimesteps :
           IncrementQuantity(item_name, quantity, timestep)
    \/ \E c \in ComponentIds, timestep \in NextCallTimesteps : LeaveUse(c, timestep)

SpecInventory == InitInventory /\ [][NextInventory]_vars

(***************************************************************************)
(* From the technology table to the processes: Scenario.execute builds the *)
(* component list, Context.populate creates one component for each entry   *)
(* and starts its begin_life process.                                      *)
(***************************************************************************)
\* Context.populate(components, lifespan_fns)
Populate ==
    /\ component_specs # <<>>
    /\ components = <<>>
    /\ error = "none"
    /\ \E p \in {populate(component_specs, rng)} :
           /\ components' = p.components
           /\ rng' = p.rng
           /\ queue' = {MkEvent(0, URGENT, c, c, "begin_life") : c \in DOMAIN p.components}
           /\ next_eid' = Len(p.components) + 1
           /\ pc' = [c \in DOMAIN p.components |-> "created"]
           /\ pathway' = [c \in DOMAIN p.components |-> <<>>]
           /\ segment' = [c \in DOMAIN p.components |-> NoSegment]
           /\ path_choice' = [c \in DOMAIN p.components |-> <<>>]
           /\ built' = [c \in DOMAIN p.components |-> <<>>]
           /\ begin_ts' = [c \in DOMAIN p.components |-> NoTime]
           /\ end_ts' = [c \in DOMAIN p.components |-> NoTime]
           /\ state' = [c \in DOMAIN p.components |-> ""]
    /\ UNCHANGED <<now, ledgerVars, supply_chain, node_cost, cost_params,
                   cumulative_volume, cost_calls, technology_data, component_specs,
                   tables, seed, run, snapshot, pending, loopVars, netw, error, finished, calls,
                   trace,
                   landfill_material_inventory, use_material_inventory, effects,
                   transition_calls, ranking>>

NextPopulate ==
    \/ BuildComponentList
    \/ Populate
    \/ \E c \in ComponentIds : StartBeginLife(c)

SpecPopulate == InitTechnology /\ [][NextPopulate]_vars

(***************************************************************************)
(* Scenario.get_filepaths (scenario.py, lines 125-159) over the files of   *)
(* the case: for each directory a list of (name, file), and whether the    *)
(* directory and each file exist.                                          *)
(***************************************************************************)
MaxDirectories == 2

Directories == {"inputs_to_preprocessing", "inputs", "quality_checks", "outputs"}

\* The directories whose files must exist, lines 150-154
CheckedDirectories == {"inputs_to_preprocessing", "inputs", "quality_checks"}

\* The name dir of line 150: no loop variable has this name (the loop
\* variable is _dir), so it is the built-in function of Python
dir == "<built-in function dir>"

\* self.scen["scenario"].get("capacity_projection")
capacity_projection == "projection.csv"

\* os.path.join(self.args.data, self.case["directories"][_dir], _f)
Join(directory, file) == <<directory, file>>

\* The inner loop, lines 143-159: found is [paths, made, error]
RECURSIVE ScanFiles(_, _, _)
ScanFiles(_dir, listed, found) ==
    IF listed = <<>> \/ found.error # "none" THEN found
    ELSE LET entry == Head(listed)
             _f == IF entry.name = "capacity_projection" THEN capacity_projection
                   ELSE entry.file
             _p == Join(_dir, _f)
         IN  IF ~entry.exists /\ dir \in CheckedDirectories
             THEN [found EXCEPT !.error = "Exception"]
             ELSE ScanFiles(_dir, Tail(listed),
                            [found EXCEPT !.paths = (entry.name :> _p) @@ @])

\* The outer loop, lines 134-141: a directory that does not exist is made
RECURSIVE get_filepaths(_, _, _)
get_filepaths(directories, existing, found) ==
    IF directories = <<>> \/ found.error # "none" THEN found
    ELSE LET _dir == Head(directories).dir
             made == IF _dir \in existing \cup found.made THEN found.made
                     ELSE found.made \cup {_dir}
         IN  get_filepaths(Tail(directories), existing,
                           ScanFiles(_dir, Head(directories).files,
                                     [found EXCEPT !.made = made]))

\* Scenario.__init__, line 94: self.get_filepaths()
GetFilepaths ==
    /\ ~files.scanned
    /\ \E found \in {get_filepaths(case_files.directories, case_files.existing,
                                   [paths |-> <<>>, made |-> {}, error |-> "none"])} :
           /\ files' = [paths |-> found.paths, made |-> found.made, scanned |-> TRUE]
           /\ error' = found.error
    /\ UNCHANGED <<now, queue, next_eid, components, pc, pathway, segment, ledgerVars,
                   supply_chain, node_cost, cost_params, cumulative_volume, cost_calls,
                   technology_data, component_specs, tables, seedVars, pending,
                   case_files, phase, netw, finished, desHistory, smVars, ranking>>

\* The lists of one directory: one or two files of different names
FileLists ==
    {<<[name |-> n, file |-> "locs.csv", exists |-> x]>> :
        n \in {"locs", "capacity_projection"}, x \in BOOLEAN}
    \cup {<<[name |-> "locs", file |-> "locs.csv", exists |-> x],
            [name |-> "capacity_projection", file |-> "case.csv", exists |-> y]>> :
            x \in BOOLEAN, y \in BOOLEAN}

\* The cases: up to MaxDirectories different directories, all of them
\* present or none
Cases ==
    {[directories |-> ds, existing |-> ex] :
        ds \in {d \in UNION {[1..k -> [dir : Directories, files : FileLists]] :
                                k \in 1..MaxDirectories} :
                   \A i, j \in DOMAIN d : i # j => d[i].dir # d[j].dir},
        ex \in {{}, Directories}}

InitFilepaths ==
    /\ case_files \in Cases
    /\ files = [paths |-> <<>>, made |-> {}, scanned |-> FALSE]
    /\ phase = "init"
    /\ netw = NewCostGraph
    /\ seed = 0
    /\ rng = 0
    /\ run = 1
    /\ snapshot = <<>>
    /\ trace = <<>>
    /\ pending = <<>>
    /\ supply_chain = EmptyGraph
    /\ technology_data = <<>>
    /\ component_specs = <<>>
    /\ tables = NoTables
    /\ components = <<>>
    /\ node_cost = MkCosts(1, 2, 3)
    /\ cost_params = FixedCosts(node_cost)
    /\ cumulative_volume = [n \in Facilities |-> 0]
    /\ cost_calls = <<>>
    /\ ranking = <<>>
    /\ now = 0
    /\ queue = {}
    /\ next_eid = 1
    /\ pc = <<>>
    /\ pathway = <<>>
    /\ segment = <<>>
    /\ count_facility_inventories = [f \in Facilities |-> NewInventory(FALSE)]
    /\ mass_facility_inventories = [f \in Facilities |-> NewInventory(FALSE)]
    /\ error = "none"
    /\ finished = FALSE
    /\ path_choice = <<>>
    /\ built = <<>>
    /\ begin_ts = <<>>
    /\ end_ts = <<>>
    /\ calls = <<>>
    /\ state = <<>>
    /\ landfill_material_inventory = NewInventory(FALSE)
    /\ use_material_inventory = NewInventory(FALSE)
    /\ effects = <<>>
    /\ transition_calls = <<>>

NextFilepaths == GetFilepaths

SpecFilepaths == InitFilepaths /\ [][NextFilepaths]_vars

(***************************************************************************)
(* The runs of a scenario (scenario.py, lines 105-120): execute is called  *)
(* for each run with the CostGraph that setup constructed.  A run is       *)
(* Context.run with the periodic update of the costs; the generator of     *)
(* the scenario goes on from run to run.                                   *)
(***************************************************************************)
MaxRuns == 2

\* scen["scenario"]["runs"]
runs == MaxRuns

\* An execute that leaves the CostGraph as the run before left it
KeepCostGraph(graph, r, year) == graph

\* execute, lines 353-362: the attributes of the CostGraph set back at the
\* start of a run after the first
ResetCostGraph(graph, r, year) ==
    [graph EXCEPT !.run = r,
                  !.year = year,
                  !.path_dict = PathDict(year),
                  !.pathway_crit_history = <<>>]

\* Scenario.execute up to self.context.run(), lines 339-481
Execute ==
    /\ phase = "loop"
    /\ run < runs
    /\ IF run > 0
       THEN \E updated \in {update_costs(cost_params, cumulative_volume,
                                         [n \in Facilities |-> 0])} :
               /\ netw' = ResetCostGraph(netw, run, start_year)
               /\ node_cost' = updated.costs
               /\ cumulative_volume' = updated.volume
               /\ cost_calls' = Append(cost_calls,
                                       MkCostCall("update_costs", node_cost, updated.costs,
                                                  updated.volume, <<>>))
       ELSE UNCHANGED <<netw, node_cost, cumulative_volume, cost_calls>>
    /\ count_facility_inventories' = [f \in Facilities |-> NewInventory(FALSE)]
    /\ mass_facility_inventories' = [f \in Facilities |-> NewInventory(FALSE)]
    /\ \E p \in {populate(component_specs, rng)} :
           /\ components' = p.components
           /\ rng' = p.rng
           /\ queue' = {MkEvent(0, URGENT, c, c, "begin_life") : c \in DOMAIN p.components}
                         \cup {MkEvent(0, URGENT, Len(p.components) + 1, UpdateProcess,
                                       "update_process")}
           /\ next_eid' = Len(p.components) + 2
           /\ pc' = [c \in DOMAIN p.components |-> "created"]
           /\ pathway' = [c \in DOMAIN p.components |-> <<>>]
           /\ segment' = [c \in DOMAIN p.components |-> NoSegment]
           /\ path_choice' = [c \in DOMAIN p.components |-> <<>>]
           /\ built' = [c \in DOMAIN p.components |-> <<>>]
           /\ begin_ts' = [c \in DOMAIN p.components |-> NoTime]
           /\ end_ts' = [c \in DOMAIN p.components |-> NoTime]
    /\ trace' = <<>>
    /\ now' = 0
    /\ error' = "none"
    /\ finished' = FALSE
    /\ calls' = <<>>
    /\ ranking' = <<>>
    /\ phase' = "run"
    /\ UNCHANGED <<seed, run, snapshot, component_specs, supply_chain, cost_params,
                   technology_data, tables, smVars, pending, fileVars>>

\* The loop of lines 108-120 after execute: postprocess, and the next run
Postprocess ==
    /\ phase = "run"
    /\ finished
    /\ error = "none"
    /\ snapshot' = Append(snapshot, Snapshot)
    /\ run' = run + 1
    /\ phase' = "loop"
    /\ UNCHANGED <<now, queue, next_eid, components, pc, pathway, segment, ledgerVars,
                   supply_chain, node_cost, cost_params, cumulative_volume, cost_calls,
                   technology_data, component_specs, tables, seed, rng, pending,
                   fileVars, netw, error, finished, desHistory, smVars, ranking>>

\* The scenario after setup: no Context yet, no run under way
InitScenario ==
    /\ seed \in Seeds
    /\ rng = default_rng(seed)
    /\ component_specs \in Schedules
    /\ run = 0
    /\ phase = "loop"
    /\ netw = NewCostGraph
    /\ snapshot = <<>>
    /\ trace = <<>>
    /\ pending = <<>>
    /\ case_files = <<>>
    /\ files = <<>>
    /\ components = <<>>
    /\ now = 0
    /\ queue = {}
    /\ next_eid = 1
    /\ pc = <<>>
    /\ pathway = <<>>
    /\ segment = <<>>
    /\ count_facility_inventories = <<>>
    /\ mass_facility_inventories = <<>>
    /\ supply_chain = DesGraph
    /\ cost_params = RunCurves
    /\ cumulative_volume = [n \in Facilities |-> 0]
    /\ node_cost = SettledCosts
    /\ error = "none"
    /\ finished = TRUE
    /\ path_choice = <<>>
    /\ built = <<>>
    /\ begin_ts = <<>>
    /\ end_ts = <<>>
    /\ calls = <<>>
    /\ state = <<>>
    /\ landfill_material_inventory = NewInventory(FALSE)
    /\ use_material_inventory = NewInventory(FALSE)
    /\ effects = <<>>
    /\ transition_calls = <<>>
    /\ ranking = <<>>
    /\ cost_calls = <<>>
    /\ technology_data = <<>>
    /\ tables = NoTables

NextScenario ==
    \/ Execute
    \/ NextUpdates
    \/ Postprocess

SpecScenario == InitScenario /\ [][NextScenario]_vars

(***************************************************************************)
(* Properties of the simulation.                                           *)
(***************************************************************************)
CallsOf(c) == SelectSeq(calls, LAMBDA r : r.comp = c)

\* The segments a component has popped so far, and those it has left
Entered(c) == Len(built[c]) - Len(pathway[c])
Left(c) == IF pc[c] = "eol_wait" THEN Entered(c) - 1 ELSE Entered(c)

\* C1: for every pathway segment (facility, duration) a component pops at
\* timestep t, eol_process adds 1 to the facility's count ledger and the
\* component's mass to its mass ledger at t, and takes the same amounts from
\* the same ledgers at t + duration, before it pops the next segment.
C1_SegmentIncrementThenDecrement ==
    \A c \in ComponentIds : \A cs \in {CallsOf(c)} :
        LET kind == components[c].kind
            mass == components[c].mass_tonnes
        IN  /\ Len(cs) = 2 * Entered(c) + 2 * Left(c)
            /\ \A j \in 1..Entered(c) :
                 LET seg == built[c][j]
                     t == cs[4 * j - 3].at
                 IN  /\ cs[4 * j - 3].call = MkCall("count", seg[1], kind, 1, t)
                     /\ cs[4 * j - 2].call = MkCall("mass", seg[1], kind, mass, t)
                     /\ cs[4 * j - 2].at = t
                     /\ j <= Left(c) =>
                          /\ cs[4 * j - 1].call =
                               MkCall("count", seg[1], kind, -1, t + seg[2])
                          /\ cs[4 * j].call =
                               MkCall("mass", seg[1], kind, -mass, t + seg[2])
                          /\ cs[4 * j - 1].at = t + seg[2]
                          /\ cs[4 * j].at = t + seg[2]

\* A component has left a segment it stayed in and entered the next one
C1_Witness ==
    \E c \in ComponentIds :
        /\ Left(c) >= 1
        /\ Entered(c) >= 2
        /\ built[c][1][2] > 0

\* The calls made on one ledger of a facility for one item
CallsOn(inv, facility, item) ==
    SelectSeq(calls, LAMBDA r : /\ r.call.inv = inv
                                /\ r.call.facility = facility
                                /\ r.call.item = item)

\* The quantities of the calls of a log made at or before a timestep
RECURSIVE SumCalls(_, _)
SumCalls(log, upto) ==
    IF log = <<>> THEN 0
    ELSE (IF Head(log).at <= upto THEN Head(log).call.quantity ELSE 0)
         + SumCalls(Tail(log), upto)

LedgerIsSumOf(inventory, item, log) ==
    /\ inventory.level[item] = SumCalls(log, max_timesteps)
    /\ \A t \in Timesteps : LevelAt(inventory, item, t) = SumCalls(log, t)

\* C2: for every facility, item and timestep t, the level of the count and
\* of the mass ledger at t is the sum of the increments less the sum of the
\* decrements made at or before t, and the running level is the sum of all
\* of them.
C2_LevelIsSumOfChanges ==
    \A f \in Facilities, k \in Kinds :
        /\ \A log \in {CallsOn("count", f, k)} :
             LedgerIsSumOf(count_facility_inventories[f], k, log)
        /\ \A log \in {CallsOn("mass", f, k)} :
             LedgerIsSumOf(mass_facility_inventories[f], k, log)

\* Two components of one kind have shared a facility and one has left it
C2_Witness ==
    \E f \in Facilities, k \in Kinds :
        /\ count_facility_inventories[f].level[k] = 1
        /\ \E t \in Timesteps : LevelAt(count_facility_inventories[f], k, t) = 2
        /\ \E i \in DOMAIN calls :
             /\ calls[i].call.facility = f
             /\ calls[i].call.item = k
             /\ calls[i].call.quantity < 0

\* C3: a single component of lifespan L that enters its in use facility F at
\* timestep t0 makes the count level of F 1 at t0 .. t0+L-1 and 0 at t0+L,
\* and from t0+L it is counted at the facility of its next segment for the
\* duration of that segment.
C3_InUseForLifespan ==
    (Len(components) = 1 /\ begin_ts[1] # NoTime) =>
        LET kind == components[1].kind
            L == components[1].initial_lifespan_timesteps
            t0 == begin_ts[1]
            F == built[1][1][1]
            F2 == built[1][2][1]
            d2 == built[1][2][2]
        IN  /\ NodeAttr(supply_chain, F).step = "in use"
            /\ \A t \in Timesteps :
                 t < now =>
                   /\ (t0 <= t /\ t <= t0 + L - 1) =>
                        LevelAt(count_facility_inventories[F], kind, t) = 1
                   /\ t = t0 + L =>
                        LevelAt(count_facility_inventories[F], kind, t) = 0
                   /\ (t0 + L <= t /\ t < t0 + L + d2) =>
                        LevelAt(count_facility_inventories[F2], kind, t) = 1

\* A single component of the longest lifespan has moved on to its next segment
C3_Witness ==
    /\ Len(components) = 1
    /\ begin_ts[1] # NoTime
    /\ components[1].initial_lifespan_timesteps = MaxLifespan
    /\ now > begin_ts[1] + MaxLifespan
    /\ LevelAt(count_facility_inventories[built[1][1][1]], components[1].kind,
               begin_ts[1]) = 1

Durations(path) == [i \in DOMAIN path |-> path[i][2]]

\* C4: the durations of a component's pathway segments add up to the
\* timestep of its terminal event less the timestep begin_life resumed at.
C4_DurationConservation ==
    \A c \in ComponentIds :
        pc[c] = "done" => end_ts[c] - begin_ts[c] = SeqSum(Durations(built[c]))

\* A component has reached its terminal event after a stay in use
C4_Witness ==
    \E c \in ComponentIds :
        /\ pc[c] = "done"
        /\ components[c].initial_lifespan_timesteps > 0
        /\ Len(built[c]) = 3

\* C5: begin_life gives an "in use" segment the component's own lifespan, a
\* "landfill" segment twice the horizon, and leaves every other segment the
\* duration choose_paths returned; the facilities and their order are those
\* of the chosen path.
C5_DurationPolicy ==
    \A c \in ComponentIds :
        begin_ts[c] # NoTime =>
            /\ Len(built[c]) = Len(path_choice[c])
            /\ \A i \in DOMAIN built[c] :
                 LET step == NodeAttr(supply_chain, path_choice[c][i][1]).step
                 IN  /\ built[c][i][1] = path_choice[c][i][1]
                     /\ built[c][i][2] =
                          CASE step = "in use" -> components[c].initial_lifespan_timesteps
                            [] step = "landfill" -> 2 * max_timesteps
                            [] OTHER -> path_choice[c][i][2]

\* A pathway with a segment of each of the three sorts has been built
C5_Witness ==
    \E c \in ComponentIds :
        /\ begin_ts[c] # NoTime
        /\ Len(built[c]) = 3
        /\ NodeAttr(supply_chain, built[c][3][1]).step = "landfill"
        /\ components[c].initial_lifespan_timesteps # StepDuration("in use")

\* C6: a component stays unscheduled until its entry timestep
\* (year - min_year) / years_per_timestep: before it the component has not
\* asked for a path and has made no call on a ledger, and its first
\* increment is booked at exactly that timestep.
EntryTimestep(c) == (components[c].year - min_year) * TimestepsPerYear

C6_EntryAtBeginTimestep ==
    \A c \in ComponentIds : \A cs \in {CallsOf(c)} :
        /\ now < EntryTimestep(c) =>
             /\ pc[c] \in {"created", "begin_wait"}
             /\ path_choice[c] = <<>>
             /\ cs = <<>>
        /\ pc[c] \in {"created", "begin_wait"} =>
             /\ begin_ts[c] = NoTime
             /\ path_choice[c] = <<>>
             /\ cs = <<>>
        /\ begin_ts[c] # NoTime => begin_ts[c] = EntryTimestep(c)
        /\ cs # <<>> =>
             /\ cs[1].at = EntryTimestep(c)
             /\ cs[1].call.timestep = EntryTimestep(c)
             /\ cs[1].call.quantity > 0

\* A component of a later year has made its first increment
C6_Witness ==
    \E c \in ComponentIds :
        /\ components[c].year > min_year
        /\ CallsOf(c) # <<>>

(***************************************************************************)
(* Properties of the state machine.                                        *)
(***************************************************************************)
\* The effects a table entry names, entry before exit, those present only
EffectsOf(next_state) ==
    SelectSeq(<<next_state.state_entry_function, next_state.state_exit_function>>,
              LAMBDA function : function # "None")

\* This step is a call of transition(name, timestep) on component c
Called(c, name, timestep) ==
    /\ Len(transition_calls') = Len(transition_calls) + 1
    /\ Last(transition_calls').comp = c
    /\ Last(transition_calls').transition = name
    /\ Last(transition_calls').timestep = timestep

\* C7: transition called with a (current state, transition name) pair that
\* is not in the transitions table raises the invalid transition error
\* (KeyError) and changes nothing: not the state of the component, not its
\* residency duration, no effect is invoked and no ledger is modified.
C7_InvalidTransitionRaises ==
    [][\A c \in ComponentIds, name \in Transitions, timestep \in CallTimesteps :
          (/\ Called(c, name, timestep)
           /\ StateTransition(state[c], name) \notin DOMAIN make_transitions_table)
          => /\ Last(transition_calls').raised = "KeyError"
             /\ state' = state
             /\ components' = components
             /\ effects' = effects
             /\ landfill_material_inventory' = landfill_material_inventory
             /\ use_material_inventory' = use_material_inventory
             /\ UNCHANGED ledgerVars]_vars

\* A component was landfilled and then asked to be landfilled again
C7_Witness ==
    \E i \in DOMAIN transition_calls :
        /\ transition_calls[i].raised = "KeyError"
        /\ transition_calls[i].from = "landfill"
        /\ transition_calls[i].transition = "landfilling"
        /\ state[transition_calls[i].comp] = "landfill"
        /\ Len(effects) = Len(EffectsOf(make_transitions_table[
                                           StateTransition("use", "landfilling")]))

\* C8: transition called with a pair that is in the transitions table sets
\* the state and the residency duration of the component to those of the
\* entry first, then invokes the entry effect, then the exit effect, each if
\* present and each with (context, component, timestep).
C8_ValidTransitionOrder ==
    [][\A c \in ComponentIds, name \in Transitions, timestep \in CallTimesteps :
          (/\ Called(c, name, timestep)
           /\ StateTransition(state[c], name) \in DOMAIN make_transitions_table)
          => LET next_state == make_transitions_table[StateTransition(state[c], name)]
                 lifespan == components'[c].initial_lifespan_timesteps
             IN  /\ state'[c] = next_state.state
                 /\ lifespan \in next_state.lifespan_min..next_state.lifespan_max
                 /\ effects' = effects \o
                        [i \in DOMAIN EffectsOf(next_state) |->
                            [function |-> EffectsOf(next_state)[i],
                             context |-> "context", component |-> c,
                             timestep |-> timestep, state |-> next_state.state,
                             lifespan |-> lifespan]]]_vars

\* A component went from use to landfill at the last timestep a caller asks
\* at: landfill was called on it, then leave_use, and both ledgers moved
C8_Witness ==
    \E c \in ComponentIds, i \in DOMAIN effects :
        /\ state[c] = "landfill"
        /\ components[c].initial_lifespan_timesteps = LandfillLifespan
        /\ i + 1 \in DOMAIN effects
        /\ effects[i].function = "landfill" /\ effects[i].component = c
        /\ effects[i + 1].function = "leave_use" /\ effects[i + 1].component = c
        /\ effects[i].timestep = MaxCallTimestep
        /\ landfill_material_inventory.level[components[c].kind] > 0

(***************************************************************************)
(* Properties of path selection.                                           *)
(***************************************************************************)
StepOf(G, name) == NodeAttr(G, name).step

\* A path of G from a node of the source class to a node of a sink class
\* that visits no node twice
IsSimpleSourceToSink(G, p) ==
    /\ Len(p) >= 2
    /\ \A i \in DOMAIN p : p[i] \in NodeNames(G)
    /\ StepOf(G, p[1]) = SourceStep
    /\ StepOf(G, p[Len(p)]) \in Range(SinkSteps)
    /\ \A i, j \in DOMAIN p : i # j => p[i] # p[j]
    /\ \A i \in 1..(Len(p) - 1) : HasEdge(G, p[i], p[i + 1])

\* C9: every pathway path selection produces starts at a node of the source
\* class ("in use"), ends at a node of a sink class and visits no node
\* twice, whatever the cycles of the graph; begin_life keeps the facilities
\* of the pathway it builds.
C9_PathwaysAreSimple ==
    /\ \A i \in DOMAIN ranking :
           IsSimpleSourceToSink(supply_chain, FacilitiesOf(ranking[i].path))
    /\ \A c \in ComponentIds :
           built[c] # <<>> =>
               /\ IsSimpleSourceToSink(supply_chain, FacilitiesOf(built[c]))
               /\ FacilitiesOf(built[c]) = FacilitiesOf(ranking[1].path)

\* A graph with the cycle in use -> recycling -> in use, in which the
\* component was given a pathway through the recycler
C9_Witness ==
    /\ HasEdge(supply_chain, InUse1, Recycling2)
    /\ HasEdge(supply_chain, Recycling2, InUse1)
    /\ \E c \in ComponentIds :
           /\ Len(built[c]) >= 3
           /\ built[c][2][1] = Recycling2
    /\ Len(ranking) >= 2

\* Every simple path of G from the source class to a sink class
SimpleSourceToSinkPaths(G) ==
    {p \in UNION {[1..n -> NodeNames(G)] : n \in 2..Len(G.nodes)} :
        IsSimpleSourceToSink(G, p)}

\* The total cost of a path: its nodes' processing costs and its edges' costs
TotalCost(G, costs, p) ==
    SeqSum([i \in DOMAIN p |-> costs[p[i]]])
    + SeqSum([i \in 1..(Len(p) - 1) |-> get_edge_data(G, p[i], p[i + 1]).cost])

\* The same graph with its edges added in the reverse order
ReverseEdges(G) == [G EXCEPT !.edges = Reverse(@)]

C11_CheaperRouteAfterUpdate ==
    \A i \in DOMAIN cost_calls :
        cost_calls[i].op = "choose_paths" =>
            \A landfill_route \in {TotalCost(supply_chain, cost_calls[i].costs,
                                             LandfillRoute)} :
            \A recycling_route \in {TotalCost(supply_chain, cost_calls[i].costs,
                                              RecyclingRoute)} :
                /\ cost_calls[i].selected \in {LandfillRoute, RecyclingRoute}
                /\ recycling_route < landfill_route
                       => cost_calls[i].selected = RecyclingRoute
                /\ landfill_route < recycling_route
                       => cost_calls[i].selected = LandfillRoute

\* The route of cost 7 was selected against the route of cost 10, then
\* updates made the landfill route the cheaper one and it was selected
C11_Witness ==
    \E i, j \in DOMAIN cost_calls :
        /\ i < j
        /\ cost_calls[i].op = "choose_paths"
        /\ TotalCost(supply_chain, cost_calls[i].costs, LandfillRoute) = 10
        /\ TotalCost(supply_chain, cost_calls[i].costs, RecyclingRoute) = 7
        /\ cost_calls[i].selected = RecyclingRoute
        /\ cost_calls[j].op = "choose_paths"
        /\ TotalCost(supply_chain, cost_calls[j].costs, LandfillRoute) < 7
        /\ cost_calls[j].selected = LandfillRoute

\* C12: for a learning exponent above 0, and with the cumulative volume
\* never decreasing, no call of update_costs raises the processing cost of
\* a node above its previous value, and the cost is never below the floor.
C12_LearningCurveMonotone ==
    /\ \A i \in DOMAIN cost_calls :
           cost_calls[i].op = "update_costs" =>
               \A n \in Facilities :
                   cost_params[n].learning_exponent > 0 =>
                       /\ cost_calls[i].costs[n] <= cost_calls[i].before[n]
                       /\ cost_calls[i].costs[n] >= cost_params[n].floor
    /\ \A i, j \in DOMAIN cost_calls :
           i < j => \A n \in Facilities :
                        cost_calls[i].volume[n] <= cost_calls[j].volume[n]
    /\ \A n \in Facilities : node_cost[n] >= cost_params[n].floor

\* An update lowered the cost of the landfill, a later one with no volume
\* left it where it was, and the cost has come down to its floor
C12_Witness ==
    \E i, j \in DOMAIN cost_calls :
        /\ i < j
        /\ cost_calls[i].op = "update_costs"
        /\ cost_calls[j].op = "update_costs"
        /\ cost_calls[i].costs[Landfill3] < cost_calls[i].before[Landfill3]
        /\ cost_calls[j].volume[Landfill3] = cost_calls[i].volume[Landfill3]
        /\ node_cost[Landfill3] = cost_params[Landfill3].floor
        /\ cost_params[Landfill3].learning_exponent > 0

\* C13: when the graph holds no path from the source class to a sink class,
\* path selection ends in a hard error the caller of the run sees: the
\* component is given no pathway, it books nothing in any ledger, and the
\* run does not go on to its end as if routing had succeeded.
C13_NoPathIsHardError ==
    \A c \in ComponentIds :
        (/\ pc[c] \notin {"created", "begin_wait"}
         /\ SimpleSourceToSinkPaths(supply_chain) = {})
        => /\ error = "IndexError"
           /\ pc[c] = "failed"
           /\ pathway[c] = <<>>
           /\ built[c] = <<>>
           /\ path_choice[c] = <<>>
           /\ CallsOf(c) = <<>>
           /\ ~finished
           /\ \A other \in ComponentIds : pc[other] \notin {"eol_wait", "done"}

\* A supply chain with connections but no route to a sink: begin_life failed
C13_Witness ==
    /\ supply_chain.edges # <<>>
    /\ SimpleSourceToSinkPaths(supply_chain) = {}
    /\ error = "IndexError"
    /\ \E c \in ComponentIds : pc[c] = "failed" /\ begin_ts[c] = NoTime

(***************************************************************************)
(* Properties of the component list.                                       *)
(***************************************************************************)
\* The manufacturing facilities with a connection into an in use facility
ManufacturersFeeding(G, facility_id) ==
    {m.facility_id : m \in {n \in Range(G.nodes) :
        /\ n.step = "manufacturing"
        /\ \E u \in Range(G.nodes) :
               /\ u.step = SourceStep
               /\ u.facility_id = facility_id
               /\ HasEdge(G, n.name, u.name)}}

ListBuilt == component_specs # <<>> \/ error # "none"

RECURSIVE RowsTotal(_)
RowsTotal(rows) ==
    IF rows = <<>> THEN 0
    ELSE Head(rows).n_technology * Len(circular_components) + RowsTotal(Tail(rows))

\* C14: find_upstream_neighbor(facility_id) returns the one predecessor
\* facility of the manufacturing class that feeds the in use facility and
\* fails when that facility has no such predecessor or more than one, so
\* every entry of the component list built from the technology table
\* carries the one manufacturing facility of its in use facility.
C14_OneUpstreamNeighbor ==
    ListBuilt =>
        /\ (error = "none") <=>
               \A i \in DOMAIN technology_data :
                   Cardinality(ManufacturersFeeding(supply_chain,
                                                    technology_data[i].facility_id)) = 1
        /\ error # "none" => component_specs = <<>>
        /\ error = "none" => Len(component_specs) = RowsTotal(technology_data)
        /\ \A i \in DOMAIN component_specs :
               ManufacturersFeeding(supply_chain, component_specs[i].in_use_facility_id)
                   = {component_specs[i].manuf_facility_id}

\* A list was built for two in use facilities fed by different
\* manufacturers
C14_Witness ==
    /\ error = "none"
    /\ \E i, j \in DOMAIN component_specs :
           /\ component_specs[i].in_use_facility_id # component_specs[j].in_use_facility_id
           /\ component_specs[i].manuf_facility_id # component_specs[j].manuf_facility_id

(***************************************************************************)
(* Properties of the built supply chain.                                   *)
(***************************************************************************)
GraphBuilt == tables # NoTables /\ supply_chain # EmptyGraph

\* C15: node ids are unique in the built supply chain: two different
\* (processing step, facility id) pairs never map to the same node id;
\* building gives every pair a node of its own or fails with a
\* configuration error, and never merges the nodes of two facilities.
C15_NodeIdsUnique ==
    GraphBuilt =>
        \/ error # "none"
        \/ /\ \A r \in Range(tables.costs_df) :
                  \E n \in Range(supply_chain.nodes) :
                      n.step = r.step /\ n.facility_id = r.facility_id
           /\ \A i, j \in DOMAIN supply_chain.nodes :
                  i # j => supply_chain.nodes[i].name # supply_chain.nodes[j].name
           /\ Len(supply_chain.nodes) = Len(tables.costs_df)

UpdateTimesteps == SelectSeq(trace, LAMBDA e : e.kind = "update_timeout")

\* C18: during Context.run the cost state changes only inside the periodic
\* update, which fires every cost_graph_update_interval_timesteps
\* timesteps; no choose_paths call runs between the start and the end of an
\* update, so it sees the costs of before or of after the update, whole.
C18_UpdateIsBarrier ==
    /\ [][/\ (node_cost' # node_cost \/ cumulative_volume' # cumulative_volume)
                 => (pending # <<>> \/ pending' # <<>>)
          /\ (ranking' # ranking \/ begin_ts' # begin_ts)
                 => /\ pending = <<>>
                    /\ pending' = <<>>
                    /\ node_cost = SettledCosts
                    /\ node_cost' = node_cost
                    /\ cost_calls # <<>> => node_cost = Last(cost_calls).costs]_vars
    /\ [](\A k \in DOMAIN UpdateTimesteps :
              UpdateTimesteps[k].time = k * cost_graph_update_interval_timesteps)

\* After an update that lowered the cost of two nodes, a component chose
\* its path on the new costs
C18_Witness ==
    /\ Len(cost_calls) > 0
    /\ pending = <<>>
    /\ Cardinality({n \in Facilities :
                       cost_calls[1].costs[n] < cost_calls[1].before[n]}) >= 2
    /\ \E c \in ComponentIds :
           /\ begin_ts[c] >= cost_graph_update_interval_timesteps
           /\ path_choice[c] # <<>>
           /\ ranking[1].cost < PathCost(supply_chain, cost_calls[1].before,
                                         FacilitiesOf(ranking[1].path))
    /\ Len(UpdateTimesteps) >= 2

\* C19: in an inventory with can_be_negative = False, every call of
\* increment_quantity that would bring the level below zero raises the
\* error, a delta of -1 on an empty ledger among them, and the level is
\* never negative, now or at any timestep booked.
C19_NegativeLevelRaises ==
    ~use_material_inventory.can_be_negative =>
        /\ \A i \in DOMAIN calls :
               calls[i].raised <=> calls[i].before + calls[i].quantity < 0
        /\ \A i \in DOMAIN calls :
               (calls[i].before = 0 /\ calls[i].quantity = 0 - 1) => calls[i].raised
        /\ calls # <<>> /\ Last(calls).raised => error = "ValueError"
        /\ \A item_name \in Kinds :
               /\ use_material_inventory.level[item_name] >= 0
               /\ \A t \in DOMAIN use_material_inventory.transactions[item_name] :
                      LevelAt(use_material_inventory, item_name, t) >= 0

\* A delta of -1 on the empty ledger raised, and so did a delta of -2 on a
\* ledger that held one blade
C19_Witness ==
    /\ ~use_material_inventory.can_be_negative
    /\ Len(calls) = 3
    /\ calls[1].before = 0 /\ calls[1].quantity = 0 - 1 /\ calls[1].raised
    /\ calls[2].quantity = 1 /\ ~calls[2].raised
    /\ calls[3].item = calls[2].item
    /\ calls[3].before = 1 /\ calls[3].quantity = 0 - 2 /\ calls[3].raised
    /\ error = "ValueError"
    /\ use_material_inventory.level[calls[3].item] = 1

\* The cumulative inflow of an item at each timestep of the calls
InflowSeries(inventory, item_name) ==
    [t \in 0..MaxCallTimestep |-> CumulativeInflowAt(inventory, item_name, t)]

\* C20: the cumulative-inflow series of every item does not decrease over
\* the timesteps; a call with a positive delta raises it by the delta from
\* the timestep of the call on, and a call with a negative delta leaves it
\* as it was, whatever the sign of the level.
C20_InflowNonDecreasing ==
    /\ [](\A item_name \in Kinds :
              \A t1, t2 \in 0..MaxCallTimestep :
                  t1 <= t2 => InflowSeries(use_material_inventory, item_name)[t1]
                                 <= InflowSeries(use_material_inventory, item_name)[t2])
    /\ [][\A item_name \in Kinds :
          \E before \in {InflowSeries(use_material_inventory, item_name)} :
          \E after \in {InflowSeries(use_material_inventory', item_name)} :
          \E call \in {Last(calls')} :
              \A t \in 0..MaxCallTimestep :
                  after[t] = IF /\ call.item = item_name
                                /\ ~call.raised
                                /\ call.quantity > 0
                                /\ t >= call.timestep
                             THEN before[t] + call.quantity
                             ELSE before[t]]_vars

\* Blades entered and more blades left than had entered: the level is
\* negative and the cumulative inflow is what entered
C20_Witness ==
    /\ use_material_inventory.can_be_negative
    /\ Len(calls) = 2
    /\ calls[1].item = "blade" /\ calls[1].quantity = 1 /\ calls[1].timestep = 0
    /\ calls[2].item = "blade" /\ calls[2].quantity = 0 - 2
    /\ calls[2].timestep = MaxCallTimestep
    /\ ~calls[2].raised
    /\ use_material_inventory.level["blade"] = 0 - 1
    /\ InflowSeries(use_material_inventory, "blade")[MaxCallTimestep] = 1

\* The begin_life events of a component: those waiting and those processed
BeginLifeEvents(c) ==
    Cardinality({e \in queue : e.kind = "begin_life" /\ e.comp = c})
        + Len(SelectSeq(trace, LAMBDA e : e.kind = "begin_life" /\ e.comp = c))

\* C21: populate creates one component for each entry of the component
\* list, of the kind and year of the entry, and starts begin_life once for
\* each; the components of a run number the sum over the technology rows of
\* n_technology times the number of circular components.
C21_OneComponentPerRow ==
    components # <<>> =>
        /\ Len(components) = Len(component_specs)
        /\ Len(components) = RowsTotal(technology_data)
        /\ \A c \in ComponentIds :
               /\ components[c].kind = component_specs[c].kind
               /\ components[c].year = component_specs[c].year
               /\ BeginLifeEvents(c) = 1

\* Two rows of two technology units each were populated, and every
\* begin_life has run up to its yield
C21_Witness ==
    /\ Len(technology_data) = 2
    /\ \A i \in DOMAIN technology_data : technology_data[i].n_technology = 2
    /\ Len(components) = 4 * Len(circular_components)
    /\ \A c \in ComponentIds : pc[c] = "begin_wait"

\* Each pass of the loop pops the front segment and enters its facility;
\* a process that has ended stays ended, has no event in the queue and
\* makes no call on a ledger
EolFrontToBack ==
    \A c \in ComponentIds :
        /\ (pc[c] \in {"eol_start", "eol_wait"} /\ pathway'[c] # pathway[c])
               => /\ pathway'[c] = Tail(pathway[c])
                  /\ segment'[c].location = Head(pathway[c])[1]
                  /\ segment'[c].lifespan = Head(pathway[c])[2]
        /\ pc[c] = "done"
               => /\ pc'[c] = "done"
                  /\ \A e \in queue' : e.comp # c
                  /\ \A i \in DOMAIN calls' : i > Len(calls) => calls'[i].comp # c
                  /\ segment'[c] = segment[c]

\* C22 as stated: eol_process consumes the pathway front to back, one
\* segment in each iteration, and ends when the pathway is empty; for every
\* finite pathway the process ends, so that at the end of the run every
\* process has ended; an ended process schedules no event and changes no
\* inventory.
C22_EveryProcessEnds ==
    /\ [][EolFrontToBack]_vars
    /\ [](\A c \in ComponentIds : pc[c] = "done" => pathway[c] = <<>>)
    /\ [](finished => \A c \in ComponentIds : pc[c] = "done")

\* C22, amended: as stated, but the process ends within the run exactly
\* when the durations of its pathway have elapsed before the horizon; a
\* process whose last timeout falls at or after the horizon is still
\* waiting when the run ends.
C22_ProcessEndsWithinHorizon ==
    /\ [][EolFrontToBack]_vars
    /\ [](\A c \in ComponentIds : pc[c] = "done" => pathway[c] = <<>>)
    /\ [](finished =>
            \A c \in ComponentIds :
                /\ begin_ts[c] # NoTime
                /\ pc[c] = "done" <=>
                       begin_ts[c] + SeqSum(Durations(built[c])) < max_timesteps
                /\ pc[c] # "done" =>
                       \E e \in queue : /\ e.comp = c
                                        /\ e.kind = "eol_timeout"
                                        /\ e.time >= max_timesteps)

\* The run has ended after a component of a later year went through its
\* three segments and its process ended before the horizon
C22_Witness ==
    /\ finished
    /\ \E c \in ComponentIds :
           /\ pc[c] = "done"
           /\ components[c].year > min_year
           /\ Len(built[c]) = 3
           /\ end_ts[c] < max_timesteps - 1
           /\ \A e \in queue : e.comp # c

\* The files listed for a directory of the case, each with its directory
Listed ==
    UNION {{[dir |-> case_files.directories[i].dir,
             entry |-> case_files.directories[i].files[j]] :
                j \in DOMAIN case_files.directories[i].files} :
           i \in DOMAIN case_files.directories}

\* A file that must exist and does not
MissingListed == {l \in Listed : l.dir \in CheckedDirectories /\ ~l.entry.exists}

\* C23: get_filepaths raises an exception when a file listed for one of the
\* directories inputs_to_preprocessing, inputs or quality_checks does not
\* exist, and records the path of every listed file otherwise.
C23_MissingFileRaises ==
    files.scanned =>
        /\ (MissingListed # {}) <=> (error = "Exception")
        /\ MissingListed = {} =>
              \A l \in Listed :
                  /\ l.entry.name \in DOMAIN files.paths
                  /\ \E m \in Listed :
                        /\ m.entry.name = l.entry.name
                        /\ files.paths[l.entry.name] =
                              Join(m.dir, IF m.entry.name = "capacity_projection"
                                          THEN capacity_projection ELSE m.entry.file)

\* The landfill facilities of the supply chain
Landfills == {f \in Facilities : startswith(f, "landfill")}

\* The level of every item of a ledger does not fall from a timestep to
\* the next, over the timesteps of the run
NonDecreasing(inventory) ==
    \A k \in Kinds :
        \A t \in 0..(max_timesteps - 1) :
            LevelAt(inventory, k, t) <= LevelAt(inventory, k, t + 1)

\* C24: landfill is permanent within a run: a component that entered a
\* landfill segment at timestep t has its decrement scheduled at
\* t + 2 * max_timesteps, after the horizon; no decrement is booked on a
\* landfill ledger, and the landfill count and mass levels never decrease,
\* over the timesteps and over the run.
C24_LandfillPermanent ==
    /\ [](\A c \in ComponentIds :
              (pc[c] = "eol_wait" /\ segment[c].location \in Landfills) =>
                  /\ segment[c].since < max_timesteps
                  /\ \E e \in queue :
                        /\ e.comp = c
                        /\ e.kind = "eol_timeout"
                        /\ e.time = segment[c].since + 2 * max_timesteps
                        /\ e.time > max_timesteps)
    /\ [](\A i \in DOMAIN calls :
              calls[i].call.facility \in Landfills => calls[i].call.quantity > 0)
    /\ [](\A f \in Landfills :
              /\ NonDecreasing(count_facility_inventories[f])
              /\ NonDecreasing(mass_facility_inventories[f]))
    /\ [][\A f \in Landfills : \A k \in Kinds :
              /\ count_facility_inventories'[f].level[k]
                    >= count_facility_inventories[f].level[k]
              /\ mass_facility_inventories'[f].level[k]
                    >= mass_facility_inventories[f].level[k]]_vars

\* The run has ended with a component in a landfill since before the last
\* timestep: its count and mass are still there
C24_Witness ==
    /\ finished
    /\ \E c \in ComponentIds : \E f \in Landfills :
          /\ pc[c] = "eol_wait"
          /\ segment[c].location = f
          /\ segment[c].since < max_timesteps - 1
          /\ LevelAt(count_facility_inventories[f], components[c].kind, max_timesteps) >= 1
          /\ LevelAt(mass_facility_inventories[f], components[c].kind, max_timesteps)
                >= components[c].mass_tonnes

\* What a ledger holds for an item at a timestep
BookedAt(inventory, item_name, timestep) ==
    IF timestep \in DOMAIN inventory.transactions[item_name]
    THEN inventory.transactions[item_name][timestep]
    ELSE 0

Active(c) == pc[c] = "eol_wait"

\* What the calls of a component have added to the count ledger of a facility
CountContribution(c, f) ==
    SumCalls(SelectSeq(CallsOf(c), LAMBDA r : r.call.inv = "count" /\ r.call.facility = f),
             max_timesteps)

\* The count levels of all the facilities, all items together
TotalCount ==
    SumOver([f \in Facilities |-> SumOver(count_facility_inventories[f].level, Kinds)],
            Facilities)

\* C26: each component is counted in at most one facility: it contributes 1
\* to the count ledger of exactly one facility, the one of its current
\* segment, while it is between begin_life and the end of its pathway and 0
\* to every ledger otherwise, so the count levels of all facilities add up
\* to the number of active components.
C26_CountedInOneFacility ==
    /\ \A c \in ComponentIds :
          /\ \A f \in Facilities : CountContribution(c, f) \in {0, 1}
          /\ Active(c) =>
                /\ CountContribution(c, segment[c].location) = 1
                /\ \A f \in Facilities \ {segment[c].location} : CountContribution(c, f) = 0
          /\ ~Active(c) => \A f \in Facilities : CountContribution(c, f) = 0
    /\ TotalCount = Cardinality({c \in ComponentIds : Active(c)})

\* Two components are active in different facilities, one of them in its
\* second segment or later
C26_Witness ==
    /\ \E c, d \in ComponentIds :
          /\ c # d
          /\ Active(c) /\ Active(d)
          /\ Entered(c) >= 2
          /\ segment[c].location # segment[d].location
    /\ TotalCount = 2

\* A component has ended its pathway and another is still counted
C26_WitnessEnded ==
    \E c, d \in ComponentIds :
        /\ pc[c] = "done"
        /\ Entered(c) >= 2
        /\ Active(d)
        /\ TotalCount = 1

\* The quantities of the first n calls of a log
RECURSIVE SumFirst(_, _)
SumFirst(log, n) ==
    IF n = 0 THEN 0 ELSE log[n].call.quantity + SumFirst(log, n - 1)

\* The calls of a component on one ledger of a facility, in the order made
OwnCalls(c, inv, f) ==
    SelectSeq(CallsOf(c), LAMBDA r : r.call.inv = inv /\ r.call.facility = f)

\* C27: the interleaved eol_process loops of the components never drive the
\* count or the mass level of a facility below zero, at any timestep: no
\* call on a ledger raises, and every decrement a component makes at a
\* facility comes after its own equal increment there, also when the
\* duration is 0 and both are made at the same timestep.
C27_LevelsNeverNegative ==
    /\ error # "ValueError"
    /\ \A f \in Facilities, k \in Kinds :
          /\ count_facility_inventories[f].level[k] >= 0
          /\ mass_facility_inventories[f].level[k] >= 0
          /\ \A t \in 0..max_timesteps :
                /\ LevelAt(count_facility_inventories[f], k, t) >= 0
                /\ LevelAt(mass_facility_inventories[f], k, t) >= 0
    /\ \A c \in ComponentIds, f \in Facilities, inv \in {"count", "mass"} :
          \E own \in {OwnCalls(c, inv, f)} :
              \A n \in DOMAIN own :
                  /\ SumFirst(own, n) >= 0
                  /\ own[n].call.quantity < 0 =>
                        /\ n > 1
                        /\ own[n - 1].call.quantity = 0 - own[n].call.quantity
                        /\ own[n - 1].at <= own[n].at

\* A component with a duration of 0 entered and left a facility at the
\* same timestep at which another component entered it
C27_Witness ==
    \E c, d \in ComponentIds : \E f \in Facilities :
        /\ c # d
        /\ \E own \in {OwnCalls(c, "count", f)} :
           \E other \in {OwnCalls(d, "count", f)} :
              /\ Len(own) >= 2
              /\ own[1].call.quantity = 1
              /\ own[2].call.quantity = 0 - 1
              /\ own[1].at = own[2].at
              /\ Len(other) >= 1
              /\ other[1].at = own[1].at

\* The place in the trace of the event at which component c chose its path
ChoiceEvents(c) ==
    {i \in DOMAIN trace : trace[i].kind = "begin_timeout" /\ trace[i].comp = c}

\* The updates that began among the events of a trace
UpdatesIn(events) == Len(SelectSeq(events, LAMBDA e : e.kind = "update_timeout"))

\* The updates that began before the i-th event of the trace
UpdatesBefore(i) == UpdatesIn(SubSeq(trace, 1, i))

\* The costs in force after n updates: those of construction, or those the
\* n-th call of update_costs computed
CostsAfter(n) ==
    IF n = 0 THEN [f \in DOMAIN cost_params |-> LearningCost(cost_params[f], 0)]
    ELSE cost_calls[n].costs

\* C28: the pathway of a component is chosen once, at its entry timestep,
\* from the costs in force at that moment; an update of the costs while the
\* component is on its pathway changes neither the facilities nor the
\* durations of the segments it has left, and only a component that begins
\* after the update is routed on the new costs.
C28_PathwayFixedAtEntry ==
    /\ [](\A c \in ComponentIds :
              begin_ts[c] # NoTime =>
                  /\ begin_ts[c] = EntryTimestep(c)
                  /\ Cardinality(ChoiceEvents(c)) = 1
                  /\ \A i \in ChoiceEvents(c) :
                        /\ trace[i].time = EntryTimestep(c)
                        /\ path_choice[c] =
                              choose_paths(supply_chain, CostsAfter(UpdatesBefore(i)))[1].path
                  /\ FacilitiesOf(built[c]) = FacilitiesOf(path_choice[c])
                  /\ pathway[c] = SubSeq(built[c], Entered(c) + 1, Len(built[c]))
                  /\ pc[c] = "eol_wait" =>
                        /\ segment[c].location = built[c][Entered(c)][1]
                        /\ segment[c].lifespan = built[c][Entered(c)][2])
    /\ [][\A c \in ComponentIds :
              /\ begin_ts[c] # NoTime =>
                    /\ path_choice'[c] = path_choice[c]
                    /\ built'[c] = built[c]
                    /\ begin_ts'[c] = begin_ts[c]
              /\ (begin_ts[c] = NoTime /\ begin_ts'[c] # NoTime) =>
                    \E costs \in {CostsAfter(UpdatesIn(trace))} :
                        /\ node_cost = costs
                        /\ ranking'[1].path = path_choice'[c]
                        /\ ranking'[1].cost =
                              TotalCost(supply_chain, costs, FacilitiesOf(path_choice'[c]))
                        /\ \A p \in SimpleSourceToSinkPaths(supply_chain) :
                              ranking'[1].cost <= TotalCost(supply_chain, costs, p)]_vars
    /\ [][(node_cost' # node_cost \/ cumulative_volume' # cumulative_volume) =>
              /\ pathway' = pathway
              /\ segment' = segment
              /\ path_choice' = path_choice
              /\ built' = built
              /\ {e \in queue' : e.comp # UpdateProcess}
                    = {e \in queue : e.comp # UpdateProcess}]_vars

\* A component began after an update that changed the costs, a second
\* update changed them again while it was in its first segment, and it then
\* entered the segment it had left, as built at its entry
C28_Witness ==
    /\ pending = <<>>
    /\ \E c \in ComponentIds : \E u, v \in DOMAIN cost_calls : \E i \in DOMAIN calls :
          /\ v < u
          /\ cost_calls[v].costs # cost_calls[v].before
          /\ cost_calls[u].costs # cost_calls[u].before
          /\ begin_ts[c] # NoTime
          /\ UpdateTimesteps[v].time <= begin_ts[c]
          /\ begin_ts[c] < UpdateTimesteps[u].time
          /\ Len(built[c]) >= 2
          /\ calls[i].comp = c
          /\ calls[i].call.facility = built[c][2][1]
          /\ calls[i].call.quantity > 0
          /\ calls[i].at >= UpdateTimesteps[u].time

\* The components of the run under way that have asked for a pathway
Routed == {c \in ComponentIds : begin_ts[c] # NoTime}

\* C29: every run of a scenario starts from a reset state: execute creates a
\* new Context whose inventories are empty, and for every run after the
\* first it sets the year of the shared CostGraph back to start_year,
\* recomputes the costs by update_costs with the component mass of the
\* start year and empties the pathway criterion history, before any
\* component of the run asks for a pathway.
C29_RunStartsReset ==
    /\ [][(phase = "loop" /\ phase' = "run") =>
            /\ \A f \in Facilities :
                  /\ count_facility_inventories'[f] = NewInventory(FALSE)
                  /\ mass_facility_inventories'[f] = NewInventory(FALSE)
            /\ trace' = <<>>
            /\ \A c \in DOMAIN components' :
                  pc'[c] = "created" /\ path_choice'[c] = <<>> /\ begin_ts'[c] = NoTime
            /\ run > 0 =>
                  /\ netw'.run = run
                  /\ netw'.year = start_year
                  /\ netw'.path_dict.year = start_year
                  /\ netw'.path_dict.component_mass = component_total_mass(start_year)
                  /\ netw'.pathway_crit_history = <<>>
                  /\ Len(cost_calls') = Len(cost_calls) + 1
                  /\ Last(cost_calls').op = "update_costs"
                  /\ node_cost' = Last(cost_calls').costs
                  /\ \A n \in Facilities :
                        node_cost'[n] = LearningCost(cost_params[n], cumulative_volume'[n])]_vars
    /\ [](phase = "run" =>
            /\ Len(netw.pathway_crit_history) = Cardinality(Routed)
            /\ UpdatesIn(trace) = 0 =>
                  /\ netw.year = start_year
                  /\ netw.path_dict = PathDict(start_year))

\* The second run is under way after a first run that left the CostGraph in
\* a later year with a history: a component of the second run has its
\* pathway, the only one of the history
C29_Witness ==
    /\ run = 1
    /\ phase = "run"
    /\ Len(snapshot) = 1
    /\ \E f \in Facilities : snapshot[1].count[f].inflow["blade"] # <<>>
    /\ \E i \in DOMAIN cost_calls : cost_calls[i].costs # cost_calls[i].before
    /\ UpdatesIn(trace) = 0
    /\ Cardinality(Routed) = 1
    /\ Len(netw.pathway_crit_history) = 1
    /\ netw.pathway_crit_history[1].year = start_year

\* The (u, v) pairs of the edges inside the facilities of the locations table
IntraPairs ==
    UNION {{<<e.u, e.v>> :
              e \in Range(build_facility_graph(tables.costs_df, tables.steps_df,
                                               tables.loc_df[i]).edges)} :
           i \in DOMAIN tables.loc_df}

\* The u-nodes and the v-nodes of an interconnection row, in node order
UNodes(row) == node_filter(supply_chain, row.u_step)
VNodes(row) == node_filter(supply_chain, row.v_step)

\* min(k, m) for the k u-nodes and the m v-nodes of a row
PairsOf(row) ==
    IF Len(UNodes(row)) < Len(VNodes(row)) THEN Len(UNodes(row)) ELSE Len(VNodes(row))

\* The edges of the built graph from a u-node to a v-node of a row that are
\* not edges inside a facility
InterEdges(row) ==
    {e \in Range(supply_chain.edges) :
        /\ NodeAttr(supply_chain, e.u).step = row.u_step
        /\ NodeAttr(supply_chain, e.v).step = row.v_step
        /\ <<e.u, e.v>> \notin IntraPairs}

\* C30: for each interconnection row (u_step, v_step) the built graph has
\* inter-facility edges only from nodes of step u_step to nodes of step
\* v_step, the i-th u-node paired with the i-th v-node: with k u-nodes and
\* m v-nodes exactly min(k, m) edges and not all k * m pairs, each with the
\* cost of the row and no distance; the edges inside a facility keep cost 0
\* and distance 0.
C30_InterconnectionsPairwise ==
    GraphBuilt =>
        /\ \A row \in Range(tables.interconnect_df) :
              /\ \A i \in 1..PairsOf(row) :
                    /\ HasEdge(supply_chain, UNodes(row)[i], VNodes(row)[i])
                    /\ get_edge_data(supply_chain, UNodes(row)[i], VNodes(row)[i]).cost
                          = row.cost_method
                    /\ get_edge_data(supply_chain, UNodes(row)[i], VNodes(row)[i]).dist
                          = NoDist
              /\ Cardinality(InterEdges(row)) = PairsOf(row)
        /\ \A e \in Range(supply_chain.edges) :
              IF <<e.u, e.v>> \in IntraPairs
              THEN e.cost = 0 /\ e.dist = 0
              ELSE \E row \in Range(tables.interconnect_df) :
                      /\ e \in InterEdges(row)
                      /\ \E i \in 1..PairsOf(row) :
                            e.u = UNodes(row)[i] /\ e.v = VNodes(row)[i]

\* A graph built with one u-node and two v-nodes of a row: the u-node is
\* connected to the first v-node and not to the second, and the graph holds
\* an edge inside a facility
C30_Witness ==
    /\ GraphBuilt
    /\ \E row \in Range(tables.interconnect_df) :
          /\ Len(UNodes(row)) = 1
          /\ Len(VNodes(row)) = 2
          /\ HasEdge(supply_chain, UNodes(row)[1], VNodes(row)[1])
          /\ ~HasEdge(supply_chain, UNodes(row)[1], VNodes(row)[2])
    /\ \E e \in Range(supply_chain.edges) : <<e.u, e.v>> \in IntraPairs

====
